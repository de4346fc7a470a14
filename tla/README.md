# Verification of mcorpus

TLA+ modules, TLC configurations and TLAPS proofs about the mcorpus server
(`src/mcorpus-gql`), its PostgreSQL schema (`src/mcorpus-db`) and the scripts
that deploy them. Paths below are relative to the repository's `src/`; `…/tll`
stands for `mcorpus-gql/src/main/java/com/tll`, and *the schema* for
`mcorpus-db/gen/mcorpus-schema.ddl`.

## 1. The system

| Component | State | Operations | Talks to |
|---|---|---|---|
| mcuser session tables and stored functions (schema 97–500) | `mcuser`, `mcuser_audit` (LOGIN and LOGOUT rows keyed by mcuser, created time, type, JWT id) | `mcuser_login`, `mcuser_logout`, `blacklist_jwt_ids_for`, `get_jwt_status`, `get_num_active_logins`, inserts, updates and deletes of mcusers | each call is one transaction on a pooled connection |
| mcuser repository (`…/tll/mcorpus/repo/MCorpusUserRepo.java`) | none | wraps the functions above, adds, updates and deletes mcusers, sets passwords | the web tier calls it, one autocommit call each |
| JWT status and its cache (`…/tll/jwt`) | a Caffeine cache JWT id → backend status; the answer kept in each request | status of a request's JWT, cache load, expiry, eviction, invalidation | asks the repository on a blocking thread |
| Request sync token guard (`…/tll/mcorpus/web/CsrfGuardHandler.java`, the GraphiQL page) | none on the server; the browser's `rst` cookie, a token in each page | check, hand out the next token, resynchronise | every GraphQL POST passes it; tabs share a cookie |
| GraphQL request pipeline (`GraphQLHandler`, `JWTUserGraphQLWebContext`, directives, `Main`'s chain) | per request; the browser's `jwt` cookie | gate by JWT status, `mclogin`, `mclogout`, authorisation by role | all of the above |
| Member repository (`…/tll/mcorpus/repo/MCorpusRepo.java`, schema) | `member`, `mauth`, `maddress`, `member_audit` | add, update, delete, member login and logout, addresses, reference passwords | one transaction each |
| Transforms and validators (`…/tll/transform`, `…/tll/validate`, and their `mcorpus` counterparts) | none | GraphQL arguments to rows and back, per-field checks | called by the mutation fetchers |
| Database bootstrap lambdas (`cdk/lambda`) | the database, the parameter store | create schema and users, load data, store the jdbc urls | CloudFormation sends requests, at least once each, and takes the first answer |
| Deployment stacks (`cdk/bin`, `cdk/lib`) | commits, images in ECR, the image tag parameter, the runs of the dev and prd pipelines, the two services | test, build, push, put the tag, approve, deploy; retries and superseded runs | the pipelines share the database, the repository and the parameter |

Left aside: generated jOOQ classes, the mock-data script, vendored Python and
JavaScript.

### What is hard about it

* **Stored functions interleave.** PostgreSQL runs them under READ COMMITTED:
  `now()` is frozen when the transaction starts, each statement sees what has
  been committed by then, and rows carry the frozen `now()` as their created
  time. The latest row of a JWT decides its status, so *when a call began*
  competes with *when it committed*.
* **The cache is behind the database**, and an answer is acted upon some time
  after it was obtained. Neither a logout nor an invalidation removes an entry.
* **The sync token is optimistic.** The server remembers nothing; tabs overwrite
  each other's cookie, responses arrive in any order, cookies run out.
* **Failures are values.** A failed query is cached like an answer; a failed
  update rolls back; a login whose JWT cannot be signed has already been recorded.
* **The browser holds one cookie and the server never sees it being set.**
  Responses are late or lost, tabs share the cookie, and the gate turns requests
  away before the operations that could replace it.
* **Deployment is concurrent.** Two pipelines read and write one parameter;
  steps fail half way; a lambda is retried against a database that remembers.

The hazards, each at its line and with the properties about it, are listed in
`PROJECT.json`.

### What makes each component correct

* Sessions: a session logged out, blacklisted, expired or whose mcuser is gone is
  never VALID again, whatever was in flight; no call closes somebody else's
  session; the count of active logins differs from the statuses in known cases only.
* Cache: a wrong answer, either way, lasts for a bounded time; none lasts for good.
* Sync token: a client that nothing has come between is in sync; one that is not
  gets back in sync.
* Pipeline: an operation runs only under roles its mcuser had within the lifetime
  of a JWT; a session the browser opened undisturbed is one it holds; a cookie
  that locks its browser out goes away.
* Members: a member has exactly one `mauth` row; an update that fails changes
  nothing.
* Bootstrap: a stack that says it is complete has urls that work.
* Deployment: what is named is there and was tested; production runs what was
  approved; no service goes back to an earlier commit.

## 2. Modules

| Module | What it is |
|---|---|
| `SessionLife` | abstract promise of the session tables: a session is opened once, may lapse, may be closed, and is then over |
| `McuserDb` | the tables and stored functions, statement by statement |
| `JwtStatusCache` | the web tier's status check with its cache, over any database that behaves as `SessionLife` says |
| `RstSync` | the sync token guard, the browser's cookie jar and the clients |
| `MemberRegistry` | abstract promise of the member tables: whole members, unique keys, nothing orphaned, one member at a time |
| `MemberDb` | the member tables and `MCorpusRepo`'s calls on them, statement by statement, with the locks they wait for |
| `McuserAccounts` | mcuser rows as GraphQL updates change them, by way of the transforms and validators |
| `WebSessions` | the request pipeline: one browser's jwt cookie and requests, the gate, login, logout, invalidation, over `McuserAccounts` and a summary of the tables |
| `DbBootstrap` | the custom resource of the DbBootstrap stack and its lambda |
| `Deployment` | both pipelines and the App stacks over `DbBootstrap` |
| `MC…` | model values and symmetry sets for TLC |
| `…Proofs` | the theorems, checked by TLAPS |

### McuserDb and SessionLife

`mcuser[u]` is the row's status or its absence; `mcuser_audit` the set of audit
rows; `tx[c]` the call in progress on connection `c`, with its frozen `now`. A
call is split at its statements:

| Code | Actions |
|---|---|
| `mcuser_login` (schema 368–443), `MCorpusUserRepo.login` | `LoginBegin` (transaction starts, JWT id and expiry drawn), `LoginPass`/`LoginRefuse` (id unused, password), `LoginCommit`/`LoginFail` (row inserted, or refused by the foreign key) |
| `mcuser_logout` (455–500) | `LogoutBegin`, `LogoutPass`/`LogoutRefuse` (EXISTS and `get_jwt_status`), `LogoutCommit`/`LogoutFail` |
| `blacklist_jwt_ids_for` (308–333) | `BlacklistBegin`, `BlacklistSelect` (snapshot of the INSERT … SELECT), `BlacklistCommit`/`BlacklistFail` |
| `get_jwt_status` (259–295), `get_num_active_logins` (187–207) | operators `JwtStatuses`, `ActiveLogins`; they change nothing. `JwtStatuses` is a *set*: `ORDER BY created DESC LIMIT 1` may return any row that ties |
| `addMcuser`, `updateMcuser`, `deleteMcuser` | `InsertMcuser`, `UpdateMcuserStatus`, `DeleteMcuser` (the cascade included) |

Abstracted: passwords (a login passes or not, by choice), names, request origin,
the history queries. A uid or JWT id is a UUID and is not drawn twice.
Assumed: a commit comes strictly later than the `now()` of its transaction
(microsecond clock; a round trip lies between), and the JWT's expiry claim is
computed at the instant the transaction starts (they are milliseconds apart,
the lifetime is in days). `issued`, `expires`, `loggedOut` and `revoked` are
history variables: no guard reads them except where the call is made from a JWT
that was issued (`LogoutBegin`) or draws a new id (`Fresh`).

`McuserDb` implements `SessionLife` under the mapping `Life`: the account is the
row, a JWT has *lapsed* when its claim has expired, and is *closed* when its
LOGIN row is gone or has a later LOGOUT row.

### JwtStatusCache

The database is `SessionLife`'s state, read only through the status it answers
(`BackendStatus`). It takes any step of `SessionLife` on its own account
(`Database`: logins, expiries, and what administrators do elsewhere). `cache[j]`
is an entry with its age in ticks; `req[p]` a request slot: free, loading (query
under way), loaded (answer obtained, not yet in the cache) or answered. Arrivals
are split the way `JWT.jwtHttpRequestStatus` (284–332) and
`CachingJwtBackendHandler` do it: an expired claim is refused at once; a hit
answers; a miss loads, one loader per key, and `Store` writes whatever came
back, failures included. `Logout` and `InvalidateJwtsFor` run under an answered
request; the first leaves the cache alone and the second, which may close any of
the mcuser's sessions, drops the entry of the *mcuser id*, which is not a key.
`sinceOn` and `sinceOff` are history: how long ago the JWT was last in force,
and last not in force.

### RstSync

`jar[b]` is the `rst` cookie of a cookie jar, `rst[c]` the token a client will
send as header. A request carries both; `Handle` is `CsrfGuardHandler.handle`:
`Reset` (205, neither token), `Refuse` (400), `Accept` (next token in cookie
and header), `AcceptLogout` (a successful `mclogout` expires the cookie after
the guard set it). A response to a tab arrives in two steps: `TakeCookies`, by
the browser, and `ReadHeader`, the callback of `graphQLFetcher` (`index.html`
110–117), with other requests and responses of any tab in between; `at` in a
reply says which is next. The page is left with what
`response.headers.get('rst')` gives: for a response without the header, null,
which the next request sends as the text "null" (`NullText`). Tabs are the
repository's GraphiQL page; scripts are the clients the guard's comment
describes, which send no header when they have no token and have cookie and
header at once (`Receive`). Responses are received in any order. The Origin and Referer test is taken as passed.

### MemberDb and MemberRegistry

`member[m]` is the unique key of the row (employee id and location) or its
absence, `mauth[m]` the username, `maddress` the addresses there are,
`member_audit` the members that have audit rows; the other columns, the audit
rows' times and the `modified` triggers are not modelled. The tables hold what
is committed; `tx[c]` is the call in progress on connection `c`, and what it
has written is read off its record: `LocksMember`, `LocksMauth`, `ClaimsEmp`
and `ClaimsUsername` say what it holds, `WaitsFor` which call's next statement
must wait for which.

| Code | Actions |
|---|---|
| `addMember` (`MCorpusRepo` 496–571), `insert_member` (schema 601–656) | `BeginAdd`, `InsertMember` (first insert), `InsertMauth` (second, and the commit), `…_Duplicate` |
| `updateMember` (573–671) | `BeginUpdate`; `UpdateMauth` (the mauth row, or the select when there is nothing to set in it), `EnterUsername` (its new key); `ChangeEmp` (the member row), `UpdateMember` (its new key, and the commit); `UpdateMauth_Fails`, `UpdateMember_Fails` |
| `deleteMember` (680–707) | `BeginDelete`, `DeleteMember` (the member row), `Cascade` (the rest, and the commit), `DeleteMember_Fails` |
| `member_login` (704–754), `member_logout` (768–799) | `BeginLogin` (password), `LookUpLogin`, `BeginLogout` (exists), `WriteVisit`, `…_Fails` |
| `addMemberAddress`, `deleteMemberAddress` | `AddMemberAddress`, `DeleteMemberAddress`, one statement each |

An update's fields are abstracted to `Null` (none in that table), `Keep` (some,
but not the unique key) or a new key. A statement that changes a unique key is
two steps, since it holds the row while it waits for the key; a transaction's
last statement and its commit are one, since nothing can hold it up between
them. From PostgreSQL the model takes row locks, unique indexes that wait for a
transaction in doubt, and the detection of deadlocks (`DeadlockVictim`). Lost
connections are not an action: the server rolls back, which is the step of any
failing call.

### McuserAccounts and WebSessions

`mcuser[u]` has a status and roles. `UpdateMcuser` is the mutation's way through
`McuserXfrm` (a list of roles that is not there becomes an empty array) and
`MCorpusUserRepo` (a column is set when its value is not null); `IsAuthorized`
the roles each `@auth` target accepts.

`session[j]` is the LOGIN row and the claims of a JWT, `jar` the browser's `jwt`
cookie with the time it has left, `req[p]` a request.

| Code | Actions |
|---|---|
| the browser | `Send` (takes the cookie along), `Receive` (keeps what the response sets, `RequestUtil.setJwtCookie` 73–105), `Lose` |
| `JWT.jwtHttpRequestStatus` 183–334 | `Verdicts`: the statuses a cookie may be given, with bad tokens (each deployment draws a new salt, `app-stack.ts` 115), another client origin, and the cache behind the database either way |
| `GraphQLHandler` 86–112, `AuthorizationDirective` 47–66 | `CarriesOut`; `Admit`, `Refuse` |
| `jwtUserLogin` 179–238, `mcuser_login` | `LoginPass` (password; the roles are read), `LoginCommit` (row, JWT, cookie), `LoginUnsigned` (row, and no JWT), `LoginFail` |
| `jwtUserLogout` 249–266, `jwtInvalidateAllForUser` 277–293 | `Logout`, `InvalidateJwtsFor`, `Fail` |
| administrators elsewhere | `Update`, `Delete`, `InvalidateElsewhere`, `MaxChanges` times |

Database calls are one step each but for the login, which reads the roles before
it writes its row; what else may come between statements is `McuserDb`'s. The
history variables are `crossed` (requests that overlapped), `astray` (JWTs that
overlap, a lost response or a failed signature may leave with nobody) and
`session[j].without` (how long the mcuser has not had the roles).

### DbBootstrap and Deployment

`run[i]` is one run of the lambda, at the place in `dbbootstrap.py` it has
reached, for one of the `creates` requests; `db.boot` is the run whose schema
and users the database holds, `ssm.url` and `ssm.test` the runs whose passwords
the parameters carry. The DDL creates its types, tables and roles without an "if
not exists" (the extension and the functions may be there), so `LaySchema` needs
a database nobody has bootstrapped and waits for a run in the same transaction;
`FailRun` may leave the commit done although its acknowledgement is lost;
`CutOff` is the timeout of 60 seconds or an answer that could not be sent. Only
the first answer to the request under way counts (`Answer`). Stack creation,
the hour CloudFormation waits, removal and a new database instance are external
actions, unfair and in any order.

`Deployment` numbers commits; an image is its commit's number, 0 none. `pipe[p][r]`
is the r-th run of pipeline p: the stage it is in or waits for, how far its
`docker` and `cdk` builds are, its `imageTag` artifact and how far its Deploy is.

| Code | Actions |
|---|---|
| `dev-pipeline-stack.ts` 103–116, `staging-prod-pipeline-stack.ts` 82–92 | `StartRun` |
| dev 120–199 | `TestAndBuild`, `DockerPush`, `PutImageTag`, `DockerFail` |
| dev 234–257, prd 94–123 | `CdkBuild` (prd reads the parameter), `CdkFail` |
| prd 195–205 | `Approve`, `Reject` |
| dev 316–345, prd 206–235, `app-stack.ts` 145–197 | `UpdateApp`, `AppUpdated`, `AppRolledBack`, `DeployMetrics`, `DeployFail` |
| CodePipeline | `Enter` (one run in a stage), `Arrive` (a run that waits is superseded), `Retry` (of a stage that failed, while no newer run has entered it), `EndOfAction` (the actions of a stage all end) |
| `cdk.ts` | `DeployPipelines` needs a complete bootstrap stack, whose outputs then keep it from being removed (`Bootstrap`) |

CodePipeline's rules are its documentation's, for pipelines in the default
(superseded) mode: the stacks set none. `tested` and `approved` are history.
The build's two tags name one image and are one step; Lb and Metrics stacks only
succeed or fail.

## 3. What the runs check

| Run | Instance | Distinct states | Shows |
|---|---|---|---|
| `mcuser_db` | 2 mcusers, 2 JWTs, 2 connections, lifetime 3, clock to 4 | 553 thousand | inductive invariant; `LogoutIsFinal`; `RevokedIsFinalUnlessRaced`; `CountDiffersFromStatus`, in three cases (below) and no others; `StatusAgreesWithLife`; `LogoutFollowsLogin`; `SpentIsForGood`: a session that is over stays over; `SessionsLive`, the refinement of `SessionLife` |
| `jwt_status_cache` | 2 mcusers, 1 JWT, 2 requests, time to live 3, queries of at most 2 ticks, entries evicted at any time | 144 thousand | a wrong acceptance or refusal lasts at most one query and one time to live; `RefusalIsFinal`: a closed JWT that was once refused is not honoured again; a closed JWT is refused for good in the end; a cached failure is forgotten |
| `rst_sync_busy` | 2 tabs, two requests each, answered in any order | 1.5 million | `UndisturbedIsInSync`; `StuckUntilLoaded`: a page without a token gets none until it is loaded again |
| `rst_sync_script` | 1 tab and 1 script | 35 thousand | `ScriptsSyncUp` |
| `member_db` | 2 members, 2 employee keys, 2 usernames, 1 address name, 2 connections | 522 thousand | the inductive invariant; `RegistryHolds`, the refinement of `MemberRegistry`; `StallsNeedAnUpdate`: calls hold one another up only through `updateMember`; `CallsEnd`: deadlocks are broken and no failure leaves a transaction open |
| `web_sessions` | 1 mcuser (and a uid nobody has), 1 role, 2 JWTs, 2 requests, lifetime 1, 1 change elsewhere | 949 thousand | `SerialLoginsAreHeld`; `LockoutEnds`, and `CookiesRunOut`: a cookie loses time at every tick and never comes back; `RolesAreBounded`; `SessionsFollowLife`, steps of `SessionLife` |
| `deployment` | 2 runs of the lambda, 2 Create requests, 2 databases, 2 commits, 2 runs of each pipeline | 5.1 million | `UrlsNameThePasswords`; `ReleasesAreBacked`; `ProductionWasApproved`; `ReleasesMoveForward` |

Runs expected to be violated, each with the comment or document it contradicts:

| Run | What the code does |
|---|---|
| `revoked_race` | A `blacklist_jwt_ids_for` that begins before a login commits and reads after it writes a LOGOUT row *older* than the LOGIN row. The JWT stays VALID and no later call selects it, since it has a row that is not LOGIN. |
| `closed_still_accepted` | A session logged out or invalidated is still VALID from the cache: the key dropped is the mcuser's id. |
| `rst_sync_tab` | A GraphiQL tab whose cookie has run out is refused for ever: it sends the header "null", so the 205 branch never runs for it. |
| `member_update_lost` | An update that names `mauth` fields only is applied to `mauth` and then rolled back: the update of `member` has nothing to set, jOOQ sends no statement, and the missing record makes the call fail. |
| `unnamed_roles` | An update that names no roles clears them: the transform hands the repository an empty array, which is not null, though the repository's comment says that no roles are then updated. |

One more disagreement with the documentation is stated by a property that holds,
`CountDiffersFromStatus`, since it can be said exactly. `MCorpusUserRepo` 89–93 and
`mcuser.graphqls` 120 call the result of `get_num_active_logins` the number of
*valid and non-expired* JWTs. The function (schema 197) tests `login_expiration >=
now()`, where `get_jwt_status` (281) says EXPIRED at equality, and does not look at
the mcuser's status: it counts an open session at the instant it expires, and those
of an mcuser switched off (over GraphQL only its holder asks, who is turned away
then, unless the cache still says VALID). It leaves out a VALID session that has
the LOGOUT row of an overtaken blacklist call. The property is an equivalence: the
three cases are there whenever their conditions are, and there is no fourth.

### Bounds, and why they are enough

* `MaxClock`: 4 ticks let a call begin, a login overtake it, both commit, another
  call run to its end and the login expire (`Lifetime` 3); `revoked_race` has 5.
  Two mcusers are what it takes for a call to write for another's session.
  States are cut off at the last tick only; the theorems have no bound.
* Two connections give every pair of overlapping calls; a third would only add a
  call that overlaps two others, which the inductive invariant covers (it speaks
  of one call, or of two with the same JWT id).
* `Ttl` 3 and `MaxLoad` 2 are values for which an entry has an age, a query takes
  time in which something happens, and the bound `MaxLoad + Ttl - 1` is neither
  alone. `MaxSize` 0 lets any entry be evicted at any time, which is what other
  JWTs do to the one here. History counters stop at `Horizon`, one past the bound.
* `MaxSent` is the number of requests a client has under way; `Tokens` are
  recycled once nobody holds them. With two requests each the tokens may run
  out, which only disables `Accept` there.
* `web_sessions`: two requests overlap in every way, two JWTs make a cookie that
  replaces another; `MaxChanges` 1 takes roles, status, the mcuser or its sessions
  away once at any point. With `Lifetime` 1 a JWT is new, old and expired; with
  the one role that `invalidateJwtsFor` asks for, an mcuser has it or not.
* `deployment`: with two commits and two runs a run is overtaken, superseded and
  retried, and an image has a newer one; two lambda runs overlap, and two Create
  requests and databases let either be late for the other.

`CHECK_DEADLOCK FALSE` is in the `McuserDb` and `Deployment` configurations only:
the clock, and the commits and runs, are bounded, so the bounded models do stop.

### Fairness

* `JwtStatusCache`: time passes; a query comes back, its answer is stored, a
  handler runs to its end (Ratpack runs each blocking operation to completion).
  That a query takes at most `MaxLoad` is an assumption about the database: the
  code sets no timeout. Clients, administrators and evictions owe nothing.
* `RstSync`: requests are handled, responses arrive, cookies reach their Max-Age
  unless replaced, and clients keep posting. Nobody has to reload the page or
  log out, which is why `TabsSyncUp` fails.
* `WebSessions`: time passes, and cookies run out with it; `LockoutEnds` needs
  nothing else. Browsers, servers and administrators owe nothing.
* `MemberDb`: strong fairness of each call's next step: the server runs on what
  it was sent, and serves those waiting for a lock in the order they came, so
  that a call is not passed over for ever; a deadlock is detected. The code adds
  nothing to this: it sets no statement or lock timeout (schema 25–26).

`McuserDb` and `Deployment` state no fairness: nothing in the code makes a person
commit, approve or retry, and a lambda may be cut off every time.

For `MemberDb`, two members and two keys of each kind are what it takes for two
calls to want each other's rows or keys; the ring of two calls is the shortest.
A longer ring needs a third connection: the theorems, `StallsThroughUpdates`
among them, have any number, `CallsEnd` has two. Member ids are bounded by
`SpareIds`: as many adds as there are ids left.

## 4. What is proved

All theorems hold for any sets of mcusers, JWT ids, connections, requests and
clients and any lifetime, time to live and load time, from the assumptions
named in the modules (`LifetimeAssumption`, `CacheAssumption`,
`ClientsAssumption`, …), which TLC evaluates on every run.

* `McuserDbProofs` — `InvariantHolds`, `TypeCorrect`, `LogoutRowsFollowLogins`,
  `LogoutFinality`, `RevocationFinality`. None of the safety properties is
  inductive: to see that a LOGOUT row written by a call in flight is later than
  the LOGIN row, one must know that the call began after the login had committed
  (`CallSound`), that an id names one login (`IdsUnique`), that rows are older
  than the clock (`RowsSound`) and that a login's row stays while its mcuser
  does (`LoginsKept`). `PromisesKept` says that closed sessions are `Ended` —
  structural, so that it survives the ticks — or were overtaken.
* `McuserDbLifeProofs` — `ImplementsSessionLife` (each action maps to one action
  of `SessionLife` or a stutter: a commit of a blacklist call that was overtaken
  closes fewer sessions than it has rows), `CountDiffers` (all rows of a JWT are
  its mcuser's, so what is counted is what has a LOGIN row in time and no LOGOUT
  row, `CountedIsOpen`) and `StatusIsLife`: `get_jwt_status`
  calls VALID exactly what `SessionLife` accepts, and its answer is the promised
  one, VALID or not. "The latest row" is a maximum over a set of times without a
  bound, and exists because the clock is ahead of them all (`LeastOf`,
  `GreatestOf`, from the well-foundedness of the naturals). One case escapes the
  equality: a LOGOUT row with the very `created` of its LOGIN row, the work of a
  blacklist call that a login overtook, may be picked by `LIMIT 1` or not, so a
  JWT in force may also be answered BLACKLISTED. `SpentForGood` and
  `NeverValidAgain`: from the step that ends a session on, whatever ended it, no
  row that `get_jwt_status` may fetch makes its JWT VALID.
* `JwtStatusCacheProofs` — `TypeCorrect`, `CacheIsRecent`, then
  `StaleAcceptanceBound`, `StaleRefusalBound`, `RefusalFinality` and
  `ClosedForGood`. The invariant ties what is loaded or cached to the history
  counters: a loaded status was true no longer ago than its query's age, a
  cached one no longer ago than `MaxLoad` plus its age. That a refusal is final
  needs more than times: a key has one loader, and no entry while it is being
  loaded (`OneLoader`), so that at the moment of a refusal nothing that says
  VALID is on its way. `ClosedForGood` is the safety half of
  `ClosedIsRefusedForGood`: after a lag that is known, a closed JWT is not
  answered VALID, fairness or not.

  The database is any step of `SessionLife`, with nothing else about the tables
  used. Since `McuserDb` implements `SessionLife` (`ImplementsSessionLife`) and its
  `get_jwt_status` answers what `BackendStatus` says (`StatusIsLife`), the bounds
  hold over the tables and functions too, the tie above excepted: there a refusal
  may be the database's own.
* `RstSyncProofs` — `TypeCorrect`, `UndisturbedInSync`; the strengthening is
  that a response that sets a token carries one, and that the token a page is
  about to read is in its jar unless the jar has changed since (`RepliesSound`). `StuckForGood`: with any number
  of tabs and requests, a page that holds "null" and has nothing but "null"
  under way stays so until it is loaded again, the safety behind `rst_sync_tab`.
* `MemberDbProofs` — `TypeCorrect`, `Invariant`, `Implements`. That members are
  whole and keys unique is not inductive: a commit writes what its call entered
  some steps before. The invariant adds that an insert in progress is of a member
  and key nobody has (`InsertsAreFresh`), that held rows are there and held once
  (`LocksAreExclusive`) and that a username entered is nobody else's
  (`UsernamesAreEnteredOnce`). A call that ends or begins holds nothing
  (`QuietInv`), so only the five steps that take something and the four that
  commit need an argument; `UpdatedKeys` says what a committing update may rely
  on, and serves the invariant and the refinement both. `StallsThroughUpdates`
  follows from the invariant without a step: what a call is waited for, an insert
  past its first statement, a delete past its own or an update holds; the first
  two wait only for what an update has set in `mauth`, and an update waits for
  them only with something to set in `member`. `StallsAreBroken`, by the least
  set of such calls: finitely many calls that hold one another up contain a ring,
  which is all the server looks for.
* `WebSessionsProofs` — `TypeCorrect`, `SerialLogins`, `RolesBounded`,
  `CookiesExpire`. That a session is held is not inductive: one must know that
  requests under way together are crossed (`OverlapIsCrossed`), that a request
  alone carries the cookie the jar holds and that what it is about to set
  replaces no open session (`RequestsKnowTheJar`), and that a cookie lasts as
  long as its JWT (`CookieLasts`). `RolesFresh` bounds the age of roles by the
  age of the JWT. `CookiesExpire` is the safety half of `LockoutEnds`, for any
  number of requests and lost responses; it rests on each JWT being set by one
  response, received once (`SetOnce`), which in turn needs that a login's JWT is
  nobody's yet.
* `WebSessionsLifeProofs` — `FollowLife`: from the same invariant, each step of
  `WebSessions` is one of `SessionLife` or a stutter. A login's commit issues,
  logout and invalidation close sessions of one mcuser (`ClosingLife`), a delete
  removes, a tick lapses; an invalidation for a uid nobody has is a stutter. The
  invariant is needed at the commit: its JWT is nobody's yet.
* `DeploymentProofs` — `TypeCorrect`, `UrlsRight`, `Backed`, `Approved`,
  `Forward`, for any number of lambda runs, requests, databases, commits and
  pipeline runs. For the bootstrap, a run past its commit is the one whose
  bootstrap the database holds, and one at a time is before it
  (`RunsAreSerial`). For the pipelines, a run under way or waiting has not been
  overtaken (`RunsKeepOrder`), where a run is says what its Build left
  (`BuildsLeave`), and the parameter and each service name no newer image than
  what a run not yet followed carries (`TagsMoveForward`). Nearly every action
  puts one run into a new position and supersedes others: `Changes` and `Moves`
  say how, `Effect` and `Leaves` what may change beside, and the invariants are
  shown to survive any such step once (`StepIInv`); each action is then shown to
  be one. `WedgedForGood` follows from `RunsAreSerial`: once the run whose bootstrap
  the database holds is over and no stack says complete, no run is left that could
  answer with success, until the database is replaced.

Only model-checked: liveness, which is out of the prover's reach
(`ClosedIsRefusedForGood`, `ErrorsAreForgotten`, `ScriptsSyncUp`, `CallsEnd`,
`LockoutEnds`). What can be said of them without fairness is proved
(`ClosedForGood`, `CookiesExpire`, `StallsThroughUpdates` with
`StallsAreBroken`); that the system then gets on is TLC's to show. Runs expected
to be violated have no theorem.

## 5. Plan

Done, in this order: `SessionLife`, `McuserDb` and the refinement;
`JwtStatusCache` over `SessionLife`; `RstSync`; `MemberRegistry` and `MemberDb`;
`McuserAccounts` and `WebSessions`; `DbBootstrap` and `Deployment`.

Left:

1. `McuserAccounts`: the add of an mcuser with its unique keys and the setting of
   passwords. As it stands no add can pass: `McuserXfrm` 83 reads `status`, the
   GraphQL input calls it `initialStatus` (`mcuser.graphqls` 135) and
   `McuserValidator` 30 requires it.
2. Proofs: what of `ScriptsSyncUp` and `ErrorsAreForgotten` needs no fairness.

A composition of `JwtStatusCache` with `McuserDb` in one module is not planned:
the cache is over any implementation of `SessionLife`, and section 4 says what
that gives.

### Not modelled

* JWT cryptography (Nimbus), HTTP parsing (Ratpack), GraphQL execution
  (graphql-java), Hikari pooling and the generated jOOQ classes: they are
  libraries, or keep none of the program's own control.
* `graphiql.js` (39,585 lines, most of the JavaScript there is) and the Ratpack
  metrics page are vendored browser code; `genmock.groovy` is a one-off script.
* The vpc, security group, cluster, ECR, load balancer, database and metrics
  stacks declare resources and have no order of their own beyond the
  dependencies `Deployment` has.
* `dbdata.py` replaces the member tables' contents in one transaction, by hand.
* Member and mcuser field formats: pure checks without state.
