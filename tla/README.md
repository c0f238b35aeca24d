# Verification of go-foundation

TLA+ models of the go-foundation server: its idempotent mutations and the clients
that retry them, its login sessions, its access control and bootstrap, its paged
listings, its configuration and the life of its process. TLC checks them on small
instances; TLAPS proves their safety properties, and that the idempotency store
implements an abstract key and the login service an abstract session, for every
value of the constants. Paths below are relative to `src/`.

## The system

The server is one Go process (any number of replicas share a database). It
exposes gRPC services and an HTTP gateway that forwards to its own gRPC port. All
durable state is in PostgreSQL; the process keeps none between requests except
its connection pool and, for local login, its signing key.

```
 HTTP client --> gateway --+
                           v
 gRPC client ---> interceptors --> handlers --> application services
                   request id, error details,            |
                   authentication, validation,           v
                   authorization, idempotency,       pgx pool --> PostgreSQL
                   audit, metrics, logging, recovery
```

| Component | State | Operations | What makes it correct |
|---|---|---|---|
| Idempotency interceptor and store (`transport/grpc/interceptor/idempotency.go`, `persistence/postgres/idempotency_store.go`) | `idempotency_records` | Acquire (cleanup, insert, find, takeover), Complete, Release | one execution per key and lock timeout; a stored result is final for its TTL; replays are faithful; no key is left locked |
| Sessions (`application/auth/service.go`, `persistence/postgres/session_repository.go`) | `auth_sessions`, signed access tokens at the clients | Login, Refresh, Logout, RevokeSession, ListSessions, Me | a refresh token is exchanged once; revocation bounds the access that is left; no session without a client and no token without a session |
| Authentication (`application/auth/authentication.go`, `interceptor/authentication.go`) | none | verify a bearer token, load its user by id or by external identity | only tokens of existing, enabled users |
| User creation (`application/user/service.go`, `persistence/postgres/user_repository.go`) | `users` | Create | one account per mailbox, however it is typed; true answers |
| Listing (`application/user`, `application/audit`, their repositories) | `users`, `audit_events`, the client's page token | List, Create | no row twice, no row missed, a token leads somewhere, a walk ends |
| Audit interceptor | `audit_events` | one write per mutation, after the handler | an event per execution, with the code the client is told, none for a replay |
| Lifecycle (`cmd/server/main.go`, `infrastructure/database`, `infrastructure/observability`) | pool, listeners, health status, deferred calls, channels | start-up, Serve goroutines, shutdown | accepted requests are answered, resources released in order, failures reported, the process ends |
| RBAC and authorization (`application/rbac`, `persistence/postgres/rbac_repository.go`, `interceptor/authorization.go`) | `roles`, `permissions`, `user_roles`, `role_permissions` | HasPermission, AssignRole, RemoveRole, AssignPermissionToRole, RemovePermissionFromRole | no effect without the permission |
| Administrator bootstrap (`infrastructure/bootstrap/admin.go`) | `users`, `user_roles` | EnsureAdmin at start-up | an administrator exists while the system serves, once |
| Configuration (`infrastructure/config/config.go`) | none | Load | lifetimes and bounds are sane, or start-up fails with the setting to blame |

The parts that translate one message or one error (request id, validation,
error details, logging, metrics, recovery, header mapping) keep no state.

### What is hard

* **Interleaved statements.** No operation of the server uses a multi-statement
  transaction. Acquire is up to five statements, Refresh up to three and a
  signature; every other call may run between any two. The safety of each lies
  in the WHERE clauses of its writes.
* **Clock readings.** Each call reads the clock once and uses the reading in
  later statements, so time passes between the reading and the effect. The
  comparisons exist in Go and again in SQL.
* **Failures.** A process may die between two statements; a statement may fail,
  or commit and lose its answer. Some errors are dropped on purpose
  (`service.go:108`).
* **Cleanup.** `cleanupExpired` selects and deletes in one statement, but the
  selection is made on a snapshot.
* **Check, then act.** A permission is read by one statement and used by another;
  the administrator and its role are written by two; a mutation, its audit event
  and its idempotency record by three.
* **Retries.** A client that lost its answer sends its request again, possibly
  while the first attempt still runs.
* **Shutdown.** Two servers, of which one is the client of the other, are
  stopped by a goroutine with timeouts while handlers hold pool connections.

`PROJECT.json` lists the hazards with their lines and the properties for each.

## The modules

| Module | Models |
|---|---|
| `Idempotency`, `IdempotencyProofs`, `MCIdempotency` | IdempotencyUnary, the PostgreSQL store, the audit interceptor inside it |
| `Sessions`, `SessionsProofs`, `MCSessions` | the local login service, the session repository, the token issuer, the local branch of Authenticate |
| `RotatingSession` | what a session promises: the abstract specification of `Sessions` |
| `SessionsRefinement` | the refinement mapping from `Sessions` to `RotatingSession` |
| `Pagination`, `PaginationProofs`, `MCPagination` | List of users and of audit events, their cursors, the inserts and deletes that run meanwhile |
| `KeyedExecution` | what an idempotency key promises: the abstract specification of `Idempotency` |
| `IdempotencyRefinement`, `IdempotencyRefinementProofs`, `MCIdempotencyRefinement` | the refinement mapping from `Idempotency` to `KeyedExecution` |
| `RetriedCreation`, `RetriedCreationProofs`, `MCRetriedCreation` | CreateUser under a key with retrying clients: `KeyedExecution` composed with the users table |
| `Access`, `AccessProofs`, `MCAccess` | the authentication, validation, authorization and audit interceptors, the RBAC and user mutations, EnsureAdmin on several replicas |
| `Lifecycle`, `LifecycleProofs`, `MCLifecycle` | run, gracefulStop, shutdownHTTP, the deferred calls, the Serve goroutines, requests, the pool |
| `Configuration`, `ConfigurationProofs`, `MCConfiguration` | Load, the conversion of the pool's size, the choice of token verifiers |

The MC modules only define symmetry sets, and requests, defaults and sets of
numbers that a configuration cannot write. Definitions named after what they get wrong
(`OwnsRowById`, `RotateMatchesAnyToken`, `CloseBoth`, ...) are the mutants of
`PROJECT.json`: plausible bugs, each of which violates the property it is listed
with. The specifications do not use them.

### Idempotency

`table` is the table indexed by its unique key (actor, method, key hash);
`pc[c]` is the position of call `c` in IdempotencyUnary. A call generates an id,
an owner token and a response that nobody else generates, so all three are
represented by the call. `now[c]` is the reading of `time.Now` that all
statements of the call use. The clocks of the replicas are taken to agree: the
store compares times of one process with rows written by another.

| Code | Actions |
|---|---|
| key validation, methods without keys | `Receive` (`Arrive`, `PassThrough`, `RejectKey`) |
| `cleanupExpired` | `CleanupSelect`, `CleanupDelete`, `CleanupFails` |
| INSERT ... ON CONFLICT DO NOTHING | `Insert`, `InsertConflict`, `InsertFails` |
| `find`, and the decision on what was found | `FindAbsent`, `FindLapsed`, `FindLive`, `FindFails` |
| the takeover UPDATE | `Takeover`, `TakeoverMiss`, `TakeoverFails` |
| handler, audit interceptor | `Execute`, `Audit` (`RecordEvent` or `RecordFails`) |
| `Complete`, `Release` | `Complete`, `Release`, `SettleLost`, `SettleFails` |
| death of the process | `Crash` |

The ...Fails actions choose whether the statement took effect before its answer
was lost. The cleanup is two actions because under READ COMMITTED the outer
DELETE tests only the id when a row was updated after the snapshot. Request and
response bodies are opaque: what matters is whose they are. Handler outcomes are
the three classes the code tells apart: success, an error it stores, an error it
does not store. A stored result that cannot be decoded is left out. The audit
INSERT may fail, which the interceptor logs and nobody is told (`README.md:225`);
`unrecorded` names the calls it happened to.

### The abstract key and its clients

`KeyedExecution` has one `slot` per key: free, reserved by a running call, or
holding the result of one. A call reads and changes it in one step. A reservation
is good for the lock timeout and a result for the TTL, counted from the arrival
of the request; only then does another call get the slot (`Grant`, `Expire`). One
exception is part of the contract, because the code has it (finding 2): a slot
that was reserved again after it had expired is `loose` and may be lost.

`IdempotencyRefinement` maps the row to the slot, its owner token to the call
that has it, `revived` to `loose`, and positions in Acquire, in the handler and
after it to "asking", "running" and "over". The cleanup's sub-select, the INSERT
that conflicts, the lapsed find and the takeover that misses become stuttering;
the step that decides (INSERT, takeover UPDATE, find, Complete, Release, the
cleanup's DELETE) is the abstract step.

`RetriedCreation` builds on the abstract key, which the refinement makes
legitimate. A client wants one account; it sends CreateUser with its key, and
again after any answer but success or a stored error, after the second that
`RetryInfo` asks for, and after a lost answer (`Abandon`), when its earlier
attempt may still run. Two clients may want one mailbox. `Execute` is the INSERT
into `users`; the reservation, the INSERT and the settlement are not one
transaction, as `README.md:155` says, so some histories are beyond what the key
promises: `excused` names the clients one of whose attempts failed at the store,
died or outlived its lock in the middle, or whose attempts went on when the TTL of
one of them ended. `ToldTrue` and `OneVerdict` hold for all others, and
`told = "ok"` is true for everybody. Attempts go on (`Pursued`) as long as the
client has no final answer, but also as long as one of them is under way: an
attempt the client gave up on may wait in Acquire while a later one is told "ok",
find the record expired, execute again and be refused by the unique index. Nobody
hears that answer, but it is not the first one's. The proof of `OneVerdict` brought
this case up; it takes three attempts, a lock of 3, a TTL of 4 and two lost answers.
A reservation that has lapsed is answered with "in progress" only by the second
find of an Acquire, after its takeover lost a race; such answers, and errors
without a fault (finding 1), count against `MaxLosses`.

### Sessions

`sessions` is the table by id; a login writes the session named after the call,
and each login or refresh generates the refresh token named after it. `user[u]`
is what the checks on a user read: a local account that is enabled, a disabled
one, one with an external identity, or a deleted one. Nothing in the server
changes users in these ways, so `OperatorUpdatesUser` and `OperatorDeletesUser`
stand for an operator at the database; the delete removes sessions through the
foreign key (`ON DELETE CASCADE`). A client may present any refresh token that
ever reached a client, used ones included. Tokens that were never issued are
answered like spent ones and are left out. The password check is an arbitrary
verdict. A server with local login switched off refuses every call and is not
modelled; ListSessions and Me write nothing and are part of `Access!Read`.

| Code | Actions |
|---|---|
| Login | `LoginLookup`, `LoginVerified`, `LoginDenied`, `Issue`, `Create`, `CreateFails` |
| Refresh | `RefreshStart`, `FindActive`, `FindNone`, `LoadUser`, `RevokeStale`, `RevokeStaleFails`, `Issue`, `Rotate`, `RotateMiss`, `RotateFails`, `StepFails` |
| Logout | `LogoutStart`, `Logout`, `LogoutFails` |
| RevokeSession | `RevokeStart`, `Revoke`, `RevokeMiss`, `RevokeFails` |
| death of the process | `Crash` |

`RotatingSession` is the contract: a session is open until it ends or expires, and
has one token that can be exchanged. A Refresh that presents this token, and began
before the session expired, exchanges it or ends the session; any other Refresh is
refused (`Exchange`, `Dismiss`, `Refuse`). Whether the user may go on is decided by
the code and left open by the contract. A Logout ends the session that holds its
token, and no other (`Leave`); each does so in one step. A call that failed promises
nothing to its client, but it too takes no other steps. Two things of the code are
part of the contract. The time that counts is the one at which the Refresh began, so
a token may be exchanged a little after the session expired. And when the revocation
of a refused user's session fails, the error is dropped and the client is told
"invalid" all the same (`Fail`, `service.go:108`).

`SessionsRefinement` maps the row to the session and the positions of a Refresh or
a Logout to "refreshing" and "leaving". The lookups, the signature and all
statements of a Login but its INSERT become stuttering; the step that decides is
the INSERT, the UPDATE of RotateToken or of a revocation, or the lookup that finds
nothing.

### Pagination

A row goes from `Stamp` (its `created_at` is read from the clock) to `Insert` to
`Delete`; several rows may carry one time, and rows are stored in another order
than they were stamped. Ids are numbers with their order, as UUIDs have theirs.
The client starts a walk (`StartListing`) with or without a filter, sends page
requests of any size (`ListPage`), may see one fail (`ListFails`), and may come
with a token that does not decode (`ListRefused`). `List` is the service: the
clamped limit, the SELECT of one row more than the limit, the cut and the token
from the last row kept. `encodeCursor` and `decodes` carry the two fields of the
cursor and the test on them; base64 and JSON are left out. Users and audit events
use the same code twice; the filter `Tag` stands for the audit filters, and a
walk over users is one without it.

### Access

Replicas share the tables `users`, `userRoles`, `rolePerms` and `sessions` (here only
who has a session that is not revoked). A replica goes
through EnsureAdmin (`boot`) before it serves; a call runs on one replica and dies
with it. The roles, their permissions and the policies are those of the
migrations and of `policy.go`. Three methods have no policy (`SelfService`): Me,
ListSessions and RevokeSession reach their handlers without a permission check, and
RevokeSession is a mutation with an audit event all the same; its WHERE clause
confines it to the caller's own sessions.

| Code | Actions |
|---|---|
| EnsureAdmin | `Boot`, `EnsureAccount`, `EnsureRole`, `BootFails` |
| AuthenticationUnary, Authenticate | `Arrive`, `Authenticate`, `AuthenticateRefuses`, `AuthenticateFails` |
| ValidationUnary | `Validate` |
| AuthorizationUnary, HasPermission | `Authorize`, `AuthorizeFails` |
| CreateUser, AssignRole, RemoveRole, AssignPermissionToRole, RemovePermissionFromRole | `Mutate`, `CreateConflict`, `MutateRefused`, `MutateFails` |
| RevokeSession | `Mutate`, `RevokeMiss`, `MutateFails` |
| the methods that change nothing | `Read` |
| AuditUnary | `Audit`, `AuditFails` |
| death of a replica | `Crash` |
| an operator at the database (disable, enable, link to an external identity) | `Operate` |

An address is a mailbox and whether it is typed in its normal form; `Normalise` is
`ToLower(TrimSpace(...))`. Tokens are verdicts: a subject of the local issuer or
of the OIDC provider, or none. Local tokens name accounts that exist or existed;
how they are issued and expire is in `Sessions`. Calls carry no idempotency key
here. A failed lookup in Authenticate is answered as an invalid token, as in the
code. The history variables `seenEnabled` and `seenAllowed` record what held at
some moment of a call; there need be no single moment at which the account was
both enabled and permitted. `fault` names the calls one of whose own statements
failed and `unrecorded` those whose audit INSERT did, so `TrailTrue` still speaks
of a mutation whose answer was lost, and says of a failed audit write that the
client is told the handler's result. Local login is taken to be enabled. `demoted`
records a RemoveRole that took the administrator's role; the next start of any
replica gives it back, and gives it to an account that was created with the
bootstrap address by CreateUser. `compose.yaml` states no restart policy, so
nothing is claimed about a replica that failed to start.

### Configuration

`env` maps settings to what was written: unset, malformed, or a value. Load looks
at them in `Order` and refuses with the first that does not pass (`LoadRefuses`);
then the pool is opened with the two narrowed numbers (`NewPostgresPool`: `pool`
is MaxConns, `floor` MinConns) and the verifiers are chosen (`Providers`). The
environment is at first empty or that of the service in `compose.yaml`
(`Composed`), and an operator edits settings while the server is down. Next to a
parse error the Env functions return zero, as in the code. The check on the key
files never fails, because `strEnv` replaces an empty name by its default. Numbers
that do not fit an int32 are not refused: `DATABASE_MAX_CONNECTIONS=4294967297`
opens a pool of one. pgx is external: it refuses a pool of less than one
connection and takes any minimum.

### Lifecycle

`main` is the position of the main goroutine in `run`; `defers` is its stack of
deferred calls, popped by `Release` and `BeginClosePool`/`EndClosePool`. The gRPC
listener (`main.go:166`) is not among them: the gRPC server closes it once `Serve`
was given it, so `listener` stays open when NewGateway fails (`main.go:176`), or when
the process stops before that goroutine runs; `ReleasedAtExit` says that these are
the only cases. `serve`
holds the two goroutines, `serverErr` the buffered channel (capacity two). A
signal before `signal.Notify` kills the process (`main = "killed"`). Requests
arrive over gRPC or over the gateway, which forwards them (`Forward`) or is
refused by its own server (`ForwardRefused`). A handler takes a connection for
each statement, and is refused one by a closed pool. `GracefulStop` waits for the
handlers, `Stop` cancels their contexts and does not wait; `pool.Close` waits for
the connections in use. gRPC, net/http and pgx are external and modelled from how
`main.go` uses them. Timers fire at any time while their wait lasts.

## What TLC checks

| Run | Bounds | Shows |
|---|---|---|
| `idempotency` | 3 calls, 1 key, 2 payloads, TTL 2, lock 1, time to 2, 1 fault | `HeldReservation`, `ReplayFidelity`, `StoredResultStays`, `NoAbandonedReservation`, `EventPerExecution`, `NoReexecutionInWindow`, `ImplementsKeys` (refinement) |
| `sessions` | 3 calls, 1 user, refresh lifetime 2, access lifetime 1, time to 3, 2 faults | `SingleUse`, `AccessEndsAfterRevocation`, `RefusedTokenDead`, `LoggedOutTokenDead`, `SessionBehindToken`, `CurrentTokenKnown`, `SessionOnlyAges`, `ImplementsContract` (refinement) |
| `pagination` | 3 rows, 2 tags, page sizes 0 (the default, 2), 1 and 9 (cut to the maximum, 3), 2 times | `PagesDescend`, `WalkComplete`, `TokenPromisesRow`, `WalkEnds` (liveness) |
| `lifecycle` | 3 requests, 2 connections | `AcceptedIsAnswered`, `PoolOutlivesHandlers`, `NotServingFirst`, `ReleasedAtExit`, `FailureReported`, `ShutdownCompletes` (liveness) |
| `retried_creation` | 3 attempts, 2 clients, 1 mailbox, TTL 3, lock 2, time to 2, 1 fault, 1 lost answer | `ToldTrue`, `OneVerdict` |
| `retried_creation_ends` | 5 attempts, 1 client, TTL 3, lock 2, 1 fault, 1 lost answer | `EventuallyTold` (liveness) |
| `access` | 2 calls, 1 replica, 2 accounts, 1 external subject, 11 requests, 2 operator acts | `EffectEntitled`, `TrailTrue` |
| `access_boot` | 2 calls, 2 replicas, 1 account, 1 mailbox in 2 spellings that is also the bootstrap address | `AdminWhenServing`, `OneAccountPerMailbox`, `CreateAnswerTrue` |
| `configuration` | 3 edits of 17 settings, from nothing or from compose.yaml, an int32 of 4 bits | `StartedIsSane`, `PoolAsAsked`, `RepairAdvances` |
| `access_revocation` | 2 calls, 1 replica, no operator | violates `RevocationImmediate` |
| `idempotency_unavailable` | 2 calls, no fault | violates `UnavailableOnlyOnFault` |
| `idempotency_exclusive` | 3 calls, TTL 3, lock 2, no fault | violates `ExclusiveWithinLock` |

Why the bounds are enough to be interesting. For idempotency a holder, a call that
takes over from it and a third that meets either are needed; a lock of 1, a TTL of
2 and time to 2 let a lock lapse twice and a record expire. Records of different
keys meet only in the batches of the cleanup, which the theorems cover for any
number of keys and any `CleanupLimit`. Three session calls are a login and two
that race on its token, or a login, a refresh and a logout of the second
generation, and two of them may fail. Two time values make ties in `created_at`,
and three rows with a limit of one, two or three make an exact page, an incomplete
page and a page of one more. Three requests on two connections make one wait.
Three attempts of two clients are a creation, its retry and a rival; a lock of 2
lets a retry run beside a first attempt that is still within it; five attempts of
one client outlast a crash, a lost answer, and the waits they cause. The case of
an attempt that is under way beyond the TTL of another needs more time and losses
than the run has; it is covered by the theorem, and was checked once with a TTL of
4, a lock of 3 and two losses (3.1 million states). Two calls with the requests of
`MCAccess` are a mutation and the withdrawal of what it needs, in both orders, by
each of the four RBAC methods; replicas crash and restart without bound. Three
edits set the database, which is required, and a pair of settings that depend on
each other, or set, break and mend one; from `compose.yaml` they lead to a server
with OIDC alone. The numbers are both edges of an int32 (7 and 8), one that wraps
to a legal size (17) and a negative one. Deadlock is checked in every run: each
model ends only in its `Quiescent` (or `Ended`, `Settled`, `GivesUp`) step, or in
a state where a client, a replica or an operator may start again.

### Fairness

* `Pagination!FairSpec`: the client goes on asking for pages. Nothing else is
  assumed; rows come and go, and requests fail, as they like. `WalkEnds` holds
  because pages descend strictly through finitely many rows, each of which is
  stored at most once.
* `Lifecycle!FairSpec`: the main goroutine takes its shutdown steps (the Go
  scheduler runs a runnable goroutine, timers and `context.WithTimeout` fire),
  and a statement whose context `Stop` cancelled ends, as pgx closes the
  connection of a cancelled statement. Handlers are not assumed to end, and
  neither are statements before `Stop`.

* `RetriedCreation!FairSpec`: the client goes on (it sends, and takes notice of
  answers), time passes, and a step of an attempt that stays possible is taken:
  the statements of an attempt return or its process dies, since every call has a
  deadline or a connection that breaks. Failures are bounded in number by
  `MaxFaults` and `MaxLosses`, so the property says what happens once they stop.

### Findings

The first two are divergences from `README.md:150`: "Concurrent requests using the same
key return `IDEMPOTENCY_REQUEST_IN_PROGRESS` with retry metadata."

1. `idempotency_store.go:43`. A call whose INSERT met a reservation looks it up
   with `find`. When the holder released it in between (its handler failed with
   an error that is not stored), `find` gets no row, and Acquire returns an error
   that the interceptor answers with `IDEMPOTENCY_STORE_UNAVAILABLE`, although the
   store works and a second INSERT would have succeeded
   (`idempotency_unavailable`).
2. `idempotency_store.go:122`. The cleanup deletes by the ids its sub-select
   found expired. If another call takes an expired record over in between, the
   cleanup deletes the record under its new holder, and the next INSERT reserves
   the key again: two calls execute within the lock timeout
   (`idempotency_exclusive`). The history variable `revived` names the records
   exposed to this, and the properties of the run `idempotency` are stated for all
   others: the theorems show that it is the only way.

3. `authorization.go:24`. `README.md:374`: "effective permissions are read from the
   database so revocation takes effect immediately." They are read once, before the
   handler; a call that has passed the check takes effect although the removal of
   its permission was executed, audited and answered in between
   (`access_revocation`; a removal that is still unanswered is concurrent with the
   call and excused by the property). `EffectEntitled` bounds it: the permission was
   held during that very call.

## What is proved

tlapm checks every proof; nothing is assumed but the named ASSUMEs. They follow
the code: `TimeoutAssumption` (0 < lock timeout < TTL) and `TTLAssumption` are
enforced by `config.Load`, `SizeAssumption` (0 < default <= maximal page size)
holds for the constants of the services, and the others say that the value for
"absent" is not also a value, and that bounds and row ids are numbers. The
theorems hold for any number of calls, keys, users, rows and faults, and any
lifetimes and sizes within these. The bounds on time and on faults are constants
too, so they do not restrict the theorems.

**IdempotencyProofs** (`IndInv`). The properties are not inductive alone: they
need what a program counter says about its call (`CallState`), that an
`in_progress` row carries the clock reading of its owner (`RowOfOwner`), that a
cleanup's batch holds only ids of records that had expired, or that were revived
after they had (`BatchExpired`), that a completed row holds the result of a
settled call (`RowOfResult`), what a settled call leaves behind (`SettledCall`),
and how the audit trail follows the calls (`Recording`). Each step of a call is
first reduced to a frame (it changes only its own entries) and to leaving the
table alone or writing it in one of four ways; each conjunct is then shown to
survive each of them. Theorems: `TypeCorrect`, `ReservationHeld`,
`ReplayFaithful`, `ResultStays`, `NothingAbandoned`, `AuditedOnce`, and the action
property `NoReexecution`.

**SessionsProofs** (`IndInv`). The argument is the lineage of refresh tokens.
The token in a row was generated by a call of that session that is over
(`RowInv`); the token a row is about to receive belongs to a call that is still
running, and a session is written by the last step of its login (`FreshInv`). So
a token that left a row never returns (`RotatedInv`), and with the WHERE clause
of RotateToken this gives single use. A presented token was delivered before the
call that presents it read its clock (`TokenInv`), which gives the order of
`last_used_at`. Theorems: `TypeCorrect`, `ExchangedOnce`, `AccessEnds`,
`LogoutHolds`, `RefusalFinal`, `NoTokenWithoutSession`, `TokenReachedClient`, the
action property `SessionAges`, and `Refinement`: `Spec => ImplementsContract`. The
same invariant carries the refinement. That a refusal after RotateToken matched no
row is a `Refuse` needs the lineage: the row a Refresh looked at is the only one that
could hold its token, so nobody is refused because of the state of another row.

**PaginationProofs** (`IndInv`). The invariant says what a token means: it is the
position of the lowest row shown (`TokenInv`), every row stored throughout and
not shown yet lies below it (`Remaining`), and some row does unless rows were
deleted (`Promise`). `ListFacts` removes the counting from `List` by cardinality
lemmas; the rest is the order. Theorems: `TypeCorrect`, `NoRowTwice`,
`NoRowMissed`, `TokenKept`.

**IdempotencyRefinementProofs**. `Refinement`: `Spec => ImplementsKeys`. The
invariant of `IdempotencyProofs` gives what the mapping needs of a row (its owner's
clock reading, its result). Every action is then shown to be a step of the abstract key
under the mapping, or to leave the mapped variables alone; the cleanup's DELETE
is `Expire` of the scopes it empties, which the batch invariant shows to be
expired or loose.

**RetriedCreationProofs** (`IndInv`). `Bookkeeping` relates the attempts, the
answers and the table: an attempt asks for the client that sent it, a result and
an answer are what the account of the mailbox says (`ResultTrue`, `AnswerOfResult`,
`ToldOfResult`), and the attempt that created an account has returned "ok" or its
client is excused (`CreatorKnows`). `Promise` is about the clients that are not
excused: a running attempt of theirs holds its slot (`Held`), so there is one at a
time; a slot is not loose, and a reserved one has a running holder (`Firm`); an
attempt whose handler returned a final result answers with it (`Answered`); a
final answer stays in the slot as long as attempts go on (`Verdict`), so a later
attempt is told that one; and a mailbox refused to a client is not its own
(`Others`). Time enters only through `LateExcused`: past a lock timeout or a
TTL the client is excused, so what `Grant` and `Expire` take away is nothing that
was promised. Theorems: `TypeCorrect`, `ToldTruly`, `SameVerdict`, and
`KeysContract` (the composition uses the key as `KeyedExecution` allows).

**AccessProofs** (`IndInv`). What a position says about its call (`CallShape`,
`CallAccount`), that addresses in the table are normal (`PlainEmails`), which with
the unique index gives one account per mailbox, that an account named after a
replica has the bootstrap address (`ReplicaAccount`), that past the first
statement of EnsureAdmin the account exists whoever created it (`AdminExists`), and
that a mutation was executed by a call past its handler, and the revocation of a
session by its owner (`Executed`).
Accounts are never deleted and never change their address, so both survive other
replicas and calls. Theorems: `TypeCorrect`, `Entitled`, `AdminServed`,
`OneAccount`, `CreateTrue`, `Trail`.

**LifecycleProofs** (`IndInv`). Which servers, defers and timers exist at each
position of the main goroutine (`Stages`, `Deferred`, `Unwound`), what the error
channel and the exit status know (`Reports`, `Failures`), which requests may be at
which server (`Clients`), and that connections are bounded and gone when the pool
is closed (`Pool`). Theorems: `TypeCorrect`, `Answered`, `PoolLast`,
`HealthFirst`, `Released`, `Reported`.

**ConfigurationProofs** (`IndInv`). Past Load every setting has passed (`Loaded`);
as long as only the blamed setting is edited, every setting before it passes
(`Reached`), because no check uses a setting that is read later
(`EarlierUntouched`). The conversion is proved for every width. Theorems:
`TypeCorrect`, `Sane`, `PoolSize`, `Advances`.

The type invariants of `Pagination`, of `Configuration` and of `RetriedCreation`
are left to their proofs; every other invariant that is proved is an invariant of
a run as well.

**Only model-checked**: the three liveness properties (liveness under fairness is
out of the prover's reach) and the three violations. `Sane`
discharges the assumptions on lifetimes that the other modules make.

## What is not modelled

* Stateless interceptors (request id, error details, logging, metrics, recovery),
  header mapping, documentation pages: pure translation. The JavaScript and CSS
  under `transport/http/docs` are a vendored, minified Swagger UI.
* The answers of Me, ListSessions and the lists of roles and permissions: these
  methods change nothing, so `Access!Read` has only their code. Me reads the
  user, the roles and the permissions in three statements and may answer from
  three different states; no check uses that answer.
* Password hashing, JWT signatures, OIDC verification: cryptography, taken as a
  verdict. The in-memory repository: used by tests only. Generated code.
* Failures of start-up that no setting causes are in `Lifecycle`, not in
  `Configuration`.

## Plan

Done, in this order: `Idempotency` (the only protocol of the system that spans
calls and failures), `Sessions`, `Pagination`, `Lifecycle` and the proofs of the
first three; then `KeyedExecution` with its refinement, `Access`,
`RetriedCreation`, `Configuration`, and the proofs of the refinement, of
`Access`, of `Lifecycle`, of `Configuration` and of `RetriedCreation`; last
`RotatingSession` with its refinement and the proof of it. To come:

1. The idempotency interceptor inside `Access`: a replay is keyed by the
   authenticated actor and passes the permission check of the retry.
