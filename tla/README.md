# A TLA+ model of the Go boilerplate service

This directory models the program under `src/`: an HTTP service in Go (echo,
fx, GORM over PostgreSQL) with a users-and-companies API behind Keycloak, file
storage adapters, and clients of a few remote services. The modules are written
from the code; a definition's source lines are in `PROJECT.json` under `map`.
Libraries and services the code calls (GORM, PostgreSQL, net/http, echo's
middlewares, Keycloak, the object stores) are modelled from how the code uses
them and marked external there.

Contents: 1 inventory, 2 modules, 3 runs, 4 fairness, 5 proofs, 6 findings,
7 what is not modelled, 8 plan.

## 1. Inventory

`cmd/server/main.go` wires everything with fx: configuration, the database
manager, the adapters, the services, the handlers, the router, and an HTTP
server started and stopped by lifecycle hooks. net/http gives each request a
goroutine; requests meet only in the database, in the manager's status, in the
rate limiter's store and in the remote services.

| Component | State it keeps | Operations | What is hard |
|---|---|---|---|
| User and company services (`services/user.go`, `company.go`, their repositories, the migration's schema) | tables `users`, `companies`, `user_companies`; per request the entity it read | create, get, update, delete, list | read-modify-write across statements; only the user update has a transaction; soft delete; unique keys that outlive their rows; waits for locks and keys, also in a cycle; a statement that fails, or a `COMMIT` whose answer is lost |
| Database manager (`db/manager.go`) | pool, health status under a mutex, ticker | connect with retry, health check, close, metrics | a ping outside the lock, write and read of the status in two critical sections; pings share the pool with the requests |
| Server lifecycle (`cmd/server/main.go`) | listener, requests in flight | start, serve, shutdown with timeout, close | order of closing; the Serve goroutine's end; requests that do not |
| Router and middlewares (`routes/router.go`, `middlewares`, `errors`) | none of its own | body capture, recovery, error mapping, CSRF, authentication, permission | which layer answers which error; two remote checks while sessions and permissions change |
| Rate limiter (`middlewares/rate_limiter.go`) | visitors and their buckets | allow | visitors are forgotten; their buckets start full again |
| Storage adapters (`integration/storage`) | the bucket (remote) | upload one, upload many | a goroutine per file; the caller leaves at the first error; a write that fails half-way |
| REST client (`httpclient`) | none | POST and GET with a timeout and bounded retries | an attempt that is given up may still be carried out; an answer of any status is no error |
| Keycloak adapter (`integration/auth`) | none; users, attributes, members and roles are Keycloak's | login, tokens, user info, users, passwords, mails, roles, organizations | three requests for one operation; a lost answer; calls without a timeout; other administrators |
| E-mail (`services/email.go`, `integration/email`) | none | send a message, send a raw one | the SDK repeats what it has no answer for |
| Errors (`errors`) | none | the kind and status of every error | kinds are told by Go type, identity and text, after several layers |
| Listing (`repositories/*`, `dtos/common.go`) | none | count and select, pages, filters | statements without a transaction; precedence of the filters; unchecked page arithmetic |
| Payment, cache | none | single remote calls, which nothing calls | - |
| Configuration, logging, monitoring, utilities, generated docs | none after start | - | - |

What makes them correct, in the order the project takes them:

- *Directory*: unique keys stay unique whatever transactions overlap; a user's
  memberships come from one request, never a mixture of two; a failed request
  leaves no trace unless the answer to its `COMMIT` was lost; an update does what it
  was asked, whatever happened since it read; a deleted row stays deleted; nothing
  refers to a row that does not exist; every request is answered.
- *Manager and server*: the pool is open for as long as a request may use it; a
  health answer is what the database was during the check; the status settles
  on the truth; start and stop come to an end.
- *Pipeline and limiter*: one answer per request; no handler without the
  session and permission its route asks for; no server error for what a layer
  refused; being forgotten gains a client nothing.
- *Remote calls*: what is reported done is done; what is reported failed is not,
  unless an answer was lost; nothing takes effect later than it can be accounted
  for; updates one after the other stay in that order; every call that has a
  timeout returns.
- *Listing*: nothing is listed or counted that was not there; undisturbed, the
  total, the page and its companies are exact and pages line up without a gap.
- *Storage*: success is only reported of a batch stored whole; nobody blocks.

## 2. Modules

| Module | Models | Uses |
|---|---|---|
| `Registry` | abstract: what the API promises about users and companies, one atomic step per change | - |
| `Directory` | services, repositories and schema, statement by statement | `INSTANCE Registry` |
| `Listing` | the two list requests, statement by statement, beside other requests' commits | - |
| `DbManager` | `DatabaseManager` | - |
| `Server` | the process: fx start and stop, HTTP server, requests | `EXTENDS DbManager` |
| `Batch` | abstract: what a batch upload promises | - |
| `BatchUpload` | `UploadFiles`/`UploadFile` of the S3 and GCS adapters | `INSTANCE Batch` |
| `RateLimiter` | token buckets and the store of visitors | - |
| `Errors` | the kinds of errors, `processError` and the status of an answer | - |
| `RequestPipeline` | middlewares, Keycloak's answers, the way back through the error layers | `EXTENDS RateLimiter, Errors` |
| `RemoteCall` | abstract: what a call to another service promises its caller | - |
| `RestClient` | one call over HTTP: attempts on the wire, answers, timeout, retries | - |
| `Adapters` | the Keycloak adapter's operations, SES, `TestRestClient`, against a realm that changes | `EXTENDS RestClient`, `INSTANCE RemoteCall` |
| `MCDirectory`, `MCListing`, `MCServer`, `MCBatchUpload`, `MCRequestPipeline`, `MCAdapters` | small instances | |
| `DirectoryProofs`, `ListingProofs`, `ServerProofs`, `BatchProofs`, `PipelineProofs`, `AdaptersProofs` | theorems about the module of that name (`BatchUpload`, `RequestPipeline`) | |
| `RegistryProofs` | the theorem that `Directory` implements `Registry` | `EXTENDS DirectoryProofs` |

**Directory.** A step is one SQL statement, because that is what interleaves.
`pc[r]` is where request `r` is in its handler and service method: `find` (the
`SELECT` of the entity), `joins` and `comps` (the two statements of
`Preload("Companies")`), `resolve` (one `GetOneByID` per listed company), `save`,
`write` .. `commit` (the transaction of `userRepository.Update`), `delete`,
`update`. `row`, `have`, `todo` and `want` are the service's local variables.
`BeginUpdate` is `BEGIN` and the row lock of the `UPDATE`, for which it may wait
(`Locked`); each `ClaimKey` enters one changed key into its unique index, waiting
while another open statement or transaction has it (`KeyBusy`) and failing if a row
has it (`Taken`); `Clear` is the `DELETE` of `Association.Clear`; `CommitUpdate` is
the `INSERT` of `Append` and `COMMIT`, at which all of it becomes visible, as READ
COMMITTED has it. The `INSERT` of a new user claims its keys the same way, before
`SaveUser`. `held` are the keys a request has entered. Requests that wait for each
other in a cycle (`WaitsFor`, `Deadlocked`) wait until PostgreSQL aborts one of them
(`BreakDeadlock`, error 40P01), which is answered as a database error. Deleted rows
have status `gone` and keep their keys, as in the schema. A failure, of which there
are at most `MaxFaults`, is a statement that returns an error and changes nothing
(`StatementFails`), or a write that is committed while its answer is lost, so that
the caller is told of a database error all the same (the second half of `Outcome`).
The writes of companies are single statements and stay one step each: two
that want each other's key fail in either order. Two kinds of wait are left out:
for the lock that a join row's foreign key takes on its company, which only an
update of the company's key meets, itself a single statement that holds nothing a
transaction waits for while it waits for one; and, in `Clear`, for the join rows of a
deleted user, whose row no transaction locks. They delay a request and close no cycle.

**Listing.** `Call` is the query string after parsing: a page or size that does not
parse is absent, a date that does not parse is `Bad` and answered 400; `Page`, `Size`,
`GetOffset` and `Invalid` are what the handlers and DTOs make of it. The steps are the
statements: `Count`, `Find` and the two of `Preload("Companies")`. The sort of users is
validated; that of companies goes into ORDER BY as text, so a key other than the two
modelled may sort by a column the model does not have, of whose order nothing is
assumed, or be refused (`MayBeColumn`). `Selects` is the WHERE clause as GORM writes it,
`Listings` every order that ORDER BY leaves open, `Slice` LIMIT and OFFSET. The writers
of `Directory` appear as `OtherRequest`, one step per commit, which may fall between any
two statements; the lists themselves change nothing. `seen` is a history variable: the
databases that were committed while a request was in progress.

**DbManager and Server.** `chk[c]` walks through `HealthCheck`: ping (without
the lock), `updateHealthStatus` (under it), `getHealthStatus` (under it again).
`seen` is a history variable: what held at some time of the call in progress.
`Server` adds the fx hooks, the Serve goroutine, requests that hold a connection
of the same pool, and requests of the health endpoint, which are checkers.
`Db(A)` and `Srv(A)` say that a step needs the process to be alive and that each
updates the history.

**BatchUpload.** One goroutine per file, the channel with room for all results,
and the receiving loop. `Truncates` distinguishes GCS, whose writer is closed
after a failed copy and then stores what it has, from S3.

**RateLimiter and RequestPipeline.** `pc[r]` is the layer a request is in, in the
order `router.go` installs them. A layer either writes an answer (`Write`),
returns an error (`Raise`), calls the next, or panics; `ErrorMiddleware` and
`RecoveryMiddleware` take what comes back. A write may find that the client has
hung up, which turns into an error on the way back. Keycloak is two variables
which change at any time, and any call of it may fail at any time, whatever the
reason: unreachable, a key rotation that gocloak's cached keys have not followed, a
clock that is off. A goroutine's slot serves one request after another.
An error on its way up is a record of `Errors`: an `AppError` with its type and
status, an `echo.HTTPError` with its status, or any other error, of which only
what `processError` tells apart is kept (identity with one of GORM's or the
context's, one of eight words in its text). `HandlerErrors` is what handlers pass
to `HandleError`.

**RestClient and Adapters.** `wire` holds attempts, `<<call, request, number>>`,
that are on their way or being served. The service answers one (`CarryOut`,
`TurnDown`), or it is lost (`Vanish`); the client may stop waiting for its latest
attempt at any time (`Break`), and the attempt stays on the wire. `at`, `tries` and
`reply` are where a call is: its request, the number of its latest attempt, what
that came to. `Timed` are the requests made with the program's RestClient, which
has a timeout and retries; those of gocloak have neither, those of the AWS SDK its
own retries. `AddClientRolesToUser` is three requests (`getClients`,
`getClientRole`, the grant), each made only if the last succeeded; every other
operation is one. `Succeeds` is what a method makes of the outcome. The realm
(`exists`, `writer`, `members`, `granted`, `client`, `role`) is also changed by
others at any time. `done`, `doubt` and `before` are history: the attempts carried
out, the calls with an outcome nobody knows, and which calls had succeeded when
one began.

## 3. Runs

| Run | Instance | States | Shows |
|---|---|---|---|
| `directory_users` | 3 requests, 12 calls, 4 users, 3 companies, one failing statement or lost answer, symmetric requests | 212,187 | types, unique keys, memberships, no trace of failures unless in doubt, tombstones, updates do as asked, refinement of `Registry` |
| `directory_waits` | 3 requests, 10 calls, two live users that want each other's keys, no failing statement | 141,022 | every request answered, deadlocks included; unique keys with blank ones; refinement |
| `listing` | 2 requests, 11 calls, 3 users, 2 companies, 2 commits between, ints of 5 bits, symmetric requests | 1,482,143 | what is listed and counted was there; an undisturbed list is exact; pages line up without a gap |
| `server` | 1 API request, 1 health request beside the routine, pool of 1, 2 attempts | 136,138 | pool outlives requests, lone checks truthful, status settles, start and stop end |
| `batch_upload` | 4 files, two of one name, GCS | 37,851 | success only if stored whole, each file once, nobody blocked, refinement of `Batch` |
| `request_pipeline` | 2 addresses, bucket of 2, 1 token, 1 permission, 7 kinds of request | 39,187 | one answer each, no handler and no server error without cause, limiter |
| `adapters` | 2 calls, one of any operation, one that changes something; 1 user; one retry of resty, one of the SDK | 357,819 | success means done, failure nothing unless in doubt, order of updates, refinement of `RemoteCall`, a call returns or waits where no timeout is set |
| `lost_update`, `date_range`, `stale_health`, `abrupt_shutdown`, `membership` | the smallest instance that shows it | - | section 6 |

Why these bounds are enough to be interesting:

- *Directory.* Lost updates, overlapping transactions and unique-key races need
  two requests, and the third is the one that deletes or creates what the other
  two refer to, or closes a longer cycle of waits. In `directory_users` the tables
  hold a live user in a company, a soft-deleted user that still owns its e-mail, a
  company with a blank `keycloak_id`, and free ids; the calls update by fields, by
  lists and by both, name unknown, blank and differently spelled ids, one company
  twice, and want keys that others give up. One fault at a time is what a request
  can survive; a second only fails another. In `directory_waits` both users are
  live and the calls want each other's keys, or a new user's, which wants theirs,
  so that a transaction waits for another, for an `INSERT`, or is waited for by
  the one it waits for.
- *Listing.* Two requests are two pages of one listing. Two commits can separate
  the three reads of a request for good (count, select, preload). Three users on
  pages of two give a full page and a partial one; the companies share their
  `created_at`, so that a second sort key decides. With five bits, page 9 of 4
  already wraps, as page 2^60 of 16 does with 64. Companies are sorted by
  a column the model does not have, and users by ones they do not have; one call has a
  date that does not parse.
- *Server.* A pool of one lets a single request saturate it. Two checkers are
  enough for checks to overlap, which is the only way they interact. Two attempts
  contain a first, a retry and a last.
- *Batch.* Four files give two of one name, an error while others are still
  sending, and results in any order.
- *Pipeline.* Requests meet only in the limiter, whose step is atomic, so one
  goroutine that serves requests of two addresses in turn visits every state of
  the limiter; what happens to Keycloak meanwhile is not tied to a request. (Two
  goroutines with all seven kinds of request were also explored:
  2.75 million states, none violated.) A bucket of two is needed: with one token,
  every forgotten bucket is full again after a tick.
- *Adapters.* What calls have in common is the realm, and one user is all they can
  meet on; two calls contain every order of two updates, a deletion is the
  administrators'. One retry gives a first attempt that is carried out after the
  second, or after the call has returned; the theorems cover any number.

`CHECK_DEADLOCK` is left on, and the specifications say where the system may rest
(`Finished`, `Ended`), except in the two runs of `Adapters`, whose calls end: when
both have returned and the realm is empty there may be nothing left to do.

## 4. Fairness

All liveness is weak fairness of steps a goroutine takes by itself.

- `Directory!FairSpec`: each request's own statements. PostgreSQL answers or
  fails every statement, ends one of the transactions that wait for each other
  (after its `deadlock_timeout`), and the Go scheduler runs every goroutine that can
  run. Nothing is assumed of clients or of failures.
- `Listing` states no liveness: its steps are a line, and none waits.
- `Server!FairSpec`: connecting, the ticker, checks (a ping ends by its timeout),
  and the steps of `OnStop` (a shutdown ends by its timeout). An outage need not
  end, a request need not end, a signal need not come. `HealthSettles` is
  conditional on the database staying up or down.
- `BatchUpload!FairSpec`: the caller and each worker; uploads return or fail.
- `RequestPipeline` states no liveness: it is a line too, and its calls of Keycloak
  have no timeout (`middlewares/auth.go:46`, `:61`), so that the code does not make
  them end. A call that hangs is a request that takes no further step; what it
  means for the caller is `Adapters!ReturnsOrHangs`.
- `Adapters!FairSpec`: each call's own steps, and the timeout of the RestClient,
  which fires. Nothing is assumed of services or of the network, so a request
  without a timeout may wait for ever, and `ReturnsOrHangs` says that this is the
  only way not to return.

## 5. Proofs

Every safety property that a passing run checks, and every refinement, is also a
theorem. `tlapm` checks all of them; they hold for every value of the constants
under the assumptions named in the modules, which say how the inputs look and
nothing of what the code does with them. Each proof has an inductive invariant,
shown step by step, one lemma per action.

**Directory** (`SeedNew`, `BlankEmpty`, `Ids`, `CallsOK`, `TablesOK`,
`LimitsOK`: the calls are well-typed and the initial tables meet the schema).
`UniqueKeys` is not inductive: an open transaction will write values the table
does not show yet. `IInv` therefore adds `PendingOK`, that a key which an open
transaction or `INSERT` has claimed is neither in the row of another user nor
claimed with the same value by another, that at `Clear` all keys that change have
been claimed, and that open transactions are on different users; `KeyBusy`, `Taken`
and `Locked` keep it. For
`OneWriterPerUser` it adds `ClearedOK`, that a transaction's `Clear` has taken
all of its user's join rows, which only another transaction on the same user,
excluded by the lock, could make untrue. For `NoDanglingMembership` it adds
`CompaniesOK` (what a request resolved has a row) and `ReadsOK` (the user it
read has one), which rest on rows never becoming absent again. From
`Invariance` follow `TypeCorrect`, `KeysStayUnique`, `MembershipsNeverMix` and
`MembershipsResolve`; `TombstonesStay` is the action property `TombstonesFrozen`.
`TraceOnlyInDoubt` (`NoTraceUnlessInDoubt`) says that a step which changes the tables
answers its request, of success or of a `COMMIT` whose answer is lost; `Unanswered` adds
that a request whose statement is still to come has no answer.

`UpdatesDoAsAsked` (`UpdateDoesAsAsked`) needs to know what an update has looked up
when it commits. `ResolvedOK` (`ListsResolved`) says it for every point of the loop
over the listed companies: what is found so far is what the entries done so far
stand for. That one entry is kept of each spelling (`Spelled`) rests on there being a
least index of it (`LeastIndex`), from well-foundedness of `<`. `RowsCounted` then
counts the rows written for a company by two bijections, from the entries kept to
the rows and to the spellings. No assumption is made of what other
requests do between the reads and the `COMMIT`: for a list that is not empty the
result does not depend on it, and for a field that is not provided the theorem says
only that its value is the current one or the one that was read, since more is not
true (section 6).

**Registry** (`RegistryProofs`). `KeepsRegistry` is the refinement: the records a
client sees are the rows and, of live users, their companies (`People`). Only six
actions change a table: the two inserts of new rows, `CommitUpdate`, the update of a
company and the two deletions; each is one of `Put`, `Retire`, `PutCompany`,
`Dissolve`, and all others are stutters. `CommitUpdate` is `Put` because `ClearedOK`
and the lock make what the transaction deletes and inserts all that the user has; a
commit on a user deleted meanwhile changes nothing a client sees. That the new
state meets what the registry asks of it, unique keys and known companies, is
`Invariance` in the next state. Membership of a deleted user stays in the table,
unseen, which is why `Retire` empties it.

**Listing** (`NoneNew`, `CallsOK`, `ValuesOK`, `TablesOK`, `SizesOK`, `IdsDiffer`,
`IdsFinite`: an absent parameter is no number, calls and rows are well-typed,
tables are finite and users no companies). `LInv` says of a request, by the
statement it is at, from which databases it has met its total, page, memberships
and companies are (`Place`), one perhaps from each, and that today's is among them
(`SeenOK`). `WereThere` (`ListedWereThere`, total included) follows from it, and `QuietExact`
(`QuietPageExact`), where there is only one database they can be from. `PagesFollow`
(`PagesLineUp`) needs more: two pages may come from two of the orders that ORDER BY
allows. `Rank` shows that if no two rows tie, a row's position is the same in all
of them, by counting the rows before it; that LIMIT and OFFSET with
an offset that fits give disjoint ranges of positions is `PagesApart`, and that the
ranges of pages that follow each other leave no position out between them is
`OnPage`. The property
is about lists that are paginated: with `page_size=0` every page is the whole list.

**Batch** (`SizeOK`, `NamesOK`, `KindOK`). `BInv` ties the parts together: a goroutine
has a result exactly when its upload is over (`Results`), a file is in the channel
or among the entries at most once (`Accounts`), and the object of a file that was stored
is whole unless another upload under its name failed (`Objects`). From it follow
`TypeCorrect`, `OkListsAll` (`OkListsEachFileOnce`: N different entries of N files are
all files, by a counting lemma) and `OkStoredWhole` (`OkMeansStoredWhole`).
`ImplementsBatch` is the refinement of `Batch`: the end of an upload maps to `Store` or
`Fail`, the first error or the last entry to `Tell`, the channel to stutters.

**Server** (`RoutineChecks`, `PoolSize`, `AttemptsOK`, `Separate`). `SInv` adds
`Phases`, which ties the application's phase to the manager's: the pool is open
from the end of the start to the end of the draining, and requests are in flight
only while the server runs or drains. For `LoneCheckTruthful` it adds
`CallsSeen`: two calls in progress have seen each other, a call past its ping has
seen what the ping found, and a call about to read the status reads its own
result unless it has seen another. `OtherCalls` shows once that a step of one
check keeps this for all others. From `Invariance` follow `TypeCorrect`,
`PoolOutlivesRequests` and `LoneChecksTellTruth`.

**Pipeline** (`NoneNew`, `InputsOK`, `LimitPositive`). `PInv` adds `Journey`, which says
what a request has seen by the layer it is in: past the introspection a live session,
past the exchange a permission that was granted if and only if the RPT lists it; what
Keycloak says now is always among what has been seen. `Reply` does the same for the
answer. For the limiter it adds `Earned`, that a bucket is full or holds at least a
token for every tick since its address was last seen, without which forgetting could
gain a client a request. From `Invariance` follow `TypeCorrect`, `AnswersOnce`,
`AuthorisedOnly`, `ServerErrors`; `ForgetsFull` is the action property
`ForgottenOnlyWhenFull`. The proofs do not depend on how requests overlap, so they also
cover the many goroutines the run leaves out. For `ServerErrors`, `Journey` says which
errors can be on their way up (`Raised`), and that one which would be answered 500 is
there only after a write to a client that has hung up.

**Adapters** (`RetriesNat`, `NoneNew`, `OfferedOK`). `AInv` says of every message
that its call has not got past it yet (`Sent`), that an attempt is carried out at
most once (`Traffic`), and of every call what its place tells (`Outcome`): past a
certain answer, and not in doubt, it has nothing left on the wire, and has had its
effect or not by the answer. `Order` adds that the calls which had succeeded before
one began have no update on the wire, which is what keeps updates in order. `Frame`
shows once that a step of a call leaves this true of all others. From `Invariance`
follow `TypeCorrect`, `SuccessIsTrue`, `FailureIsFinal` and `UpdatesInOrder`.
`ImplementsContract` is the refinement of `RemoteCall`: `CarryOut` of a last request
maps to `Effect`, `Return` and `Cancel` to `Return`, an attempt left without an
answer to `Doubt`, the rest to stutters; that an effect is new, and that it needs
doubt or an open call without effect, is `LastRequest` and `Traffic`.

**Only model-checked**: liveness, for which the prover has no rule, that is
`EveryRequestAnswered`, `StartDecided`, `StopEnds`, `HealthSettles`, `NobodyBlocked`,
and `ReturnsOrHangs`, under the fairness of section 4 and within
the bounds of section 3. The findings are counterexamples of TLC.

## 6. Findings

Each is a property that states what a comment or document of the repository says,
and a run in which TLC finds a behaviour of the code against it.

- `lost_update`: an update reads the user outside its transaction and writes every
  non-empty field back, so it undoes a concurrent change of a field it was not
  asked to change (`services/user.go:233`).
- `date_range`: the filters of users become `first OR last OR (email AND start AND
  end)`, so a search by text lists users whose name matches whenever they were
  created (`repositories/user.go:128`).
- `stale_health`: a check whose own ping failed may return healthy, having read
  back what an overlapping check wrote (`db/manager.go:202`).
- `abrupt_shutdown`: the Serve goroutine takes `http.ErrServerClosed` for a
  failure and panics, so the process ends under the requests that `Shutdown` is
  waiting for (`cmd/server/main.go:62`).
- `membership`: `AddUserToOrganization` looks at the error only, and resty has none
  for an answer of status 401, 404 or, after its retries, 500, so it reports a
  member who is none (`integration/auth/keycloak.go:455`). Looking at the status
  would not be enough: after a retry, 409 may mean that the first attempt had
  succeeded, which is why `JoinedWhenReported` accepts it.

Other divergences have no run of their own, because one line or one request
shows them:

- `"companies": []` changes nothing, although the comment says a provided empty
  list counts (`services/user.go:158`).
- The only migration lacks `users.stripe_customer_id`, which the model writes, so no
  user can be created under it (`models/user.go:10`). `StripeColumn` says which
  schema there is; the runs use the one the code was written for, the proofs hold
  for both.
- A read that fails is answered "not found" (`services/user.go:122`): an answer of
  404 does not mean that anything is missing.
- A user's list may name a company that is soft-deleted after it was looked up
  (`services/user.go:188`): the join row is written and no preload shows it.
- Users may be sorted by `name` according to `handlers/user.go:182`, but have no
  such column (`HasColumn`): the answer is a database error. The sort of companies
  is not validated at all (`handlers/company.go:198`).
- `UpdateUser` of the Keycloak adapter enables the account unless the status is
  inactive, an absent status included (`integration/auth/keycloak.go:490`). Nothing
  calls it yet, and what it should do then is not written anywhere.
- `isGORMError` knows an error of the database by words such as "connection", so a
  REST call that finds no connection is reported as a database error
  (`errors/handler.go:137`); the status is the same.
- `RequireRole` reads a `*auth.User` where `AuthMiddleware` has stored
  `*TokenClaims` (`middlewares/auth.go:102`): it would refuse everybody, but no
  route uses it.
- SES's `Source` is set from the access key (`integration/email/ses.go:118`).

`UpdateDoesAsAsked`, `QuietPageExact`, `LoneCheckTruthful` and `RequestsSeeOpenPool`
are what is true in their place: an update sets what it was asked to set and makes
nothing up, lists nothing was committed under are exact (of searches in a date
range, for companies), checks that do not overlap are truthful, and what the orderly
part of the shutdown does is in order.

## 7. Not modelled

- `GetOrganization` and the getters of the Keycloak adapter, `services/auth.go`: they
  read what they are given. (`GetOrganization` takes whichever of several
  organizations Go's map gives first.)
- The waiting time between retries, and the SDK's and gocloak's own connection
  handling beyond what `Attempts` and `Break` say of them.
- The messages of `services/email.go`: payload of `SendEmail`.
- `FindAll` of the abstract repository: nothing calls it.
- `FastHealthCheck` and the metrics of the manager: nothing calls the first, and
  the second copies counters.
- `RequireRole`: no route uses it.
- What echo's middlewares answer themselves: CORS a preflight request, basic auth a
  request for swagger without credentials (401). Either ends the request before the
  layers that are modelled, or lets it pass unchanged.
- Security headers, request logging, Sentry and New Relic: they do not change what a
  request does or is answered.
- A handler's claims: `AuthMiddleware` has always stored them when a handler
  behind it runs.
- Payment and cache: single remote calls without a caller.
- Configuration, utilities and generated documentation: read once, or pure text.
- The pools that failed connection attempts abandon: the program never refers to
  them again.

## 8. Plan

The components and theorems planned are done. What would say more:

1. The safety half of liveness as theorems: in `Directory`, that a request which
   waits for a lock or a key waits for one that can go on or is in a cycle that
   `BreakDeadlock` ends; in `BatchUpload`, that the channel never refuses a
   result and that the caller never waits for one that will not come.
2. What `Registry` answers: the abstract operations say what changes, not what the
   services reply.
3. `FastHealthCheck`, once something calls it, and the pools that failed attempts
   abandon, the hazard of the manager without a property.
