# GoShorten in TLA+

Models of the GoShorten backend (`src/backend`): the redirect path with its Redis cache
and click limits, the asynchronous visit logger with the process's shutdown, the members,
owners and invitations of a workspace, the accounts, sessions and API keys by which a call
is authorized, the transactions that store URLs and their tags, and single sign-on. TLC checks small
instances; TLAPS proves every safety property they have for all values of the constants.

| File | What it is |
|---|---|
| `UrlStore.tla` | one short code: row, clicks, cache entry, concurrent redirects and edits |
| `UrlStore_proofs.tla` | type correctness and six safety theorems of `UrlStore` |
| `UrlTx.tla` | URLs and tags of a workspace: the transactions statement by statement, the pool, row locks |
| `UrlTx_proofs.tla` | type correctness (with the foreign keys) and two safety theorems of `UrlTx` |
| `VisitPromise.tla` | what the visit logger promises, without its mechanism |
| `VisitLogger.tla` | channel, workers, pool and shutdown; implements `VisitPromise` |
| `VisitLogger_proofs.tla` | type correctness and three safety theorems of `VisitLogger`, and that it implements `VisitPromise` |
| `Membership.tla` | one workspace: members, owner, invitations, concurrent transactions |
| `Membership_proofs.tla` | type correctness and five safety theorems of `Membership` |
| `Access.tla` | accounts, workspaces, sessions, API keys, the interceptor's statements |
| `Access_proofs.tla` | type correctness and four safety theorems of `Access` |
| `Providers.tla` | one OIDC provider: its row, the registry in memory, sign-ins and the accounts they find or make |
| `Providers_proofs.tla` | type correctness and four safety theorems of `Providers` |
| `MC_*.tla`, `*.cfg` | the instances TLC checks |

## The system

Clients call gRPC (or REST, translated by the gateway). An interceptor authenticates,
finds the caller's workspace and role, and lets the handler run. Handlers of the shortener
service go through `CachedStore`, which puts Redis in front of `PostgresStore`. A redirect
hands its visit to the visit logger and does not wait for it. Accounts, sessions, API keys,
workspaces, members and invitations are kept by `AuthStore` in Postgres; the REST handlers
of the gateway call it directly.

| Component | State | Operations | Talks to | Hard part | Correct when |
|---|---|---|---|---|---|
| URL store and cache (`data/postgres.go`, `data/cached_store.go`) | tables `urls`, `url_tags`, `clicks`; Redis entry per code | Load, RecordVisit, Get, Create, Update, Delete | Postgres, Redis, visit logger | two stores without a common transaction; check of the limit and its clicks far apart; errors inside a transaction; the pool inside a transaction | no redirect of a dead code, no stale target, limits respected up to a bound, tenants apart, what was answered is stored |
| Shortener service (`shortener/shortener.go`) | none | GetURL, CreateURL, UpdateURL, DeleteURL, reads | CachedStore | check and write in different transactions | writes only in the caller's workspace |
| Visit logger (`data/visit.go`) | buffered channel, workers, `done` | LogVisit, LogOrphanVisit, Close | pool | full buffer, closed channel, lost signal | drops only when full, loses nothing that was accepted, Close ends |
| Process lifecycle (`main.go`) | server, pool | serve, signal, GracefulStop, Close, exit | all | order of the closes | no send on a closed channel, flush before exit |
| Memberships (`auth/membership.go`) | table `memberships`, `workspaces.owner_id` | UpdateMemberRole, RemoveMember, TransferOwnership | Postgres row locks | write skew, stale reads before the transaction, lock order | an owner at all times |
| Invitations (`auth/invitation.go`) | table `invitations` | create, accept, resend, revoke, hourly sweep | memberships | token used twice, revived, raced by the sweep | accepted once, resolved for good |
| Member REST handlers (`gateway/members.go`) | none | role checks, calls above | AuthStore | value read before the transaction (`:251`) | only managers change members |
| Workspaces (`auth/workspace.go`, `gateway/workspace.go`) | table `workspaces`, active workspace per session or user | create, delete, switch, resolve | users, sessions | cascades, fallback to `owner_id` | a caller acts in a workspace it may use |
| Users and sessions (`auth/store.go`, `auth/jwt.go`) | tables `users`, `sessions` | sign-in, revoke, deactivate, delete | interceptor | a token outlives its session | a revoked session is refused |
| API keys (`auth/store.go`) | table `api_keys` | create, roll, revoke, validate | interceptor | roll is three statements | one working key after a roll |
| Interceptor (`auth/interceptor.go`) | none | authorize | AuthStore | session, workspace, role read one by one | no call on revoked rights |
| OIDC providers (`auth/oidc.go`, `shortener/auth_service.go`) | map in memory, table `oidc_providers` | register, unregister, exchange, find or register an account | provider, users | map and table diverge; an entry is used long after it was read | who may register is the table's decision while the two agree; one account per person, a session only of it |
| Admin REST handlers (`gateway/admin.go`) | none | sessions, users, URL owner, OIDC providers | AuthStore, registry | trusts the token alone | as interceptor |
| Tags (`data/tags.go`, `shortener/tags.go`, `setTags`) | tables `tags`, `url_tags` | create, rename, delete; replace the tags of a URL | Postgres locks | upserts that lock in the caller's order, cascades, edits of one URL that do not lock it | links are links of rows; an edit leaves the tags it asked for; no request waits for ever |
| Code generation (`data/codegen.go`) | one random source | GenCode | - | used by all requests without a lock | a code is taken once |
| Analytics, previews, QR | reads | aggregations | Postgres | little | - |

Configuration, mail, the legacy Redis store, the gateway's routing, the
frontend server and the browser UI keep no state that others depend on. `PROJECT.json` lists
every part with its status and every hazard with its line.

## How the modules correspond to the code

### UrlStore

One code is enough: every statement is keyed by the code or by the id of a row that had it.
A Postgres statement (or transaction whose statements touch one row), and a Redis command,
is one step; everything else of a handler is folded into the step before or after it.

* `row`, `nextId`: the code's row of `urls` and its BIGSERIAL. `clicks`: the number of rows
  in `clicks` that reference it. `cache`: the Redis entry. `slot`: the visits the visit logger
  holds (its channel and the hands of its workers), by the id they are for.
* `visit[v]`: a `GetURL` call and its local variables. The steps are `GetURL` (Redis GET),
  `PrimaryLoad` (Load's SELECT, also after a hit), `CountClicks`, `AutoDisable`, `Evict`
  (DEL after a refused hit), `Backfill` (SET after a miss), `RecordVisit` (the second lookup
  and the send to the logger), `GetRecord` (the record the answer is made of).
* `edit[e]`: a `CreateURL`, `UpdateURL` or `DeleteURL` call. The first read decides in which
  workspace it runs; `CommitUpdate`, `CommitDelete` and `CreateURL` are the transactions;
  `Reread` is the `Get` after the commit; `Invalidate` and `WriteThrough` are Redis DEL and SET.
* `InsertClick`, `ExpireURL`, `CacheTTL`: a worker's insert, and time.
* `seen` and `limits` are history: the states of the row a running redirect overlapped, and
  the limits the present row has had, with `Unlimited` once a COUNT of its clicks failed. `orphan` is
  the part of `orphan_visits` of the last redirect of each visitor.

With `"db"` or `"redis"` in `Faults` the calls of that store may fail, with the consequences the
code gives each failure: a failed Redis GET is a miss, a failed SET or DEL is only logged, a
failed COUNT counts zero, a failed lookup makes an orphan, a failed Get after a commit reports an
update as failed that has happened.

### UrlTx

`UrlStore` takes a transaction as one step; `UrlTx` opens it up, for what happens inside:
tags, locks, connections and errors. One workspace, since every statement names it and the
policies of row-level security are satisfied by what the statement asks.

* `url`, `tag`, `links`: the committed rows of `urls`, `tags` and `url_tags`, by id. `req[r]`: a
  request with its locals, its connection (`conn`), and in `tx` what its transaction wrote and
  locked, which `Publish` makes visible at the commit. `aborted` is Postgres's state of a
  transaction after an error: it has lost its writes and locks, refuses statements, and its
  commit fails.
* `PostURL`, `PatchURL`, `DeleteURL`, `PostTag`, `PatchTag`, `DeleteTag` are the requests;
  `Acquire` is `Pool.Begin` or a query of the pool.
* `InsertURL` is the INSERT of `insertURL` with both of Create's reactions to a taken code:
  `GetExisting` on a second connection for a slug, and another attempt in the aborted transaction
  for a drawn code. `WriteRow` and `FindURL` are Update's UPDATE and SELECT.
* `FindLinks`, `DeleteLinks`, `UpsertTag`, `LinkTag` are `setTags`. Its DELETE has two steps
  because at READ COMMITTED it deletes what it saw when it started and waits for rows others have
  deleted; links others commit between the two stay. `Commit` ends Create and Update, `Reread`
  is the Get, or the COUNT of a tag, after it.
* `LockRow` and `CascadeURL` are Delete, `LockTag` with `RenameTag` or `CascadeTag` the UPDATE
  and DELETE of `TagStore`, `CreateTag` its upsert. A tag may be renamed to its own name.
* `retag`: the request gives a list of tags; `tags` are its names as `setTags` trims them. A list of
  blanks only is `retag` without `tags`, and deletes every link.
* `Holders(r)` is the table of locks: what the present statement of `r` needs, and who has it. A
  delete of a URL waits for links that are being added to it (their foreign key shares the row), an
  upsert waits for who inserts, renames or deletes the same tag, and so on. `Deadlocked` is a cycle
  of `WaitsFor`, and `BreakDeadlock` the error Postgres gives to one in it.
* `StatementError` is what the code does with an error: `insertURL` only logs one of `setTags`
  and goes on to the commit, all else returns it. `Fail` is any other error of a statement.
* `Panic`: two draws of `GenCode` at once race on the state of the random source, whose indices may
  then leave their range; the process stops and starts again. The other outcomes are codes.
* Ids of sequences are never reused. Here an id is reused when no row and no request refers to it
  any more: `Skip` and `Lose` take a row that is gone out of what the others remember, and what they
  find with it is nothing, as in the code. Fields of a row, its workspace and its visits are left
  out.

### VisitLogger and VisitPromise

`visitCh`, `closed`, `worker`, `writer` are the channel, its state, the goroutines of
`NewVisitLogger` and those of `LogOrphanVisit`; `handler` is the part of `GetURL` that records
a visit; `main`, `serveErr`, `poolOpen` are the end of `main.go`. Go's rules are in the guards:
a send on a closed channel panics, a receive from a closed channel first drains it, a
`select` with a default on an unbuffered channel succeeds only when the other side is already
receiving (`CloseChannel` and `AwaitDone` are therefore two steps). The pool is modelled from
its use: a query needs one of `MaxConns` connections, `Close` refuses new ones and waits
for those in use.

`VisitPromise` has a status per visit and nothing else: accepted or dropped at once; dropped only
while the pending visits fill the buffer; written at most once; lost only to a failing database
or after the pool was closed. `VisitLogger` implements it under the mapping `Status(v)`, the
pool being open or not. `UrlStore` uses the logger in the same form: its `slot` are the pending
visits, `BufferMayBeFull` is the promise's `Drop`, `InsertClick` its `Write` and `Lose`.

### Membership

One workspace. Transactions run at READ COMMITTED: a statement sees what is committed when it
starts, `FOR UPDATE`, UPDATE and DELETE lock rows until the end, and a statement that meets a
locked row waits and looks again. A statement is a step; the last one and the commit are one.

* `role`, `owner`, `invite`: `memberships`, `workspaces.owner_id`, `invitations`. `req[r]`: a
  request with its locals and the rows it has locked.
* `PatchMember`, `DeleteMember`, `PostTransfer`, `PostInvitation` are the handlers' checks and
  what they read before the transaction; `LockTarget`, `CountOwners`, `CommitMember`,
  `DemoteOwner`, `CommitTransfer` the transactions of `membership.go`; `Supersede`,
  `InsertInvitation` the two statements of `CreateInvitation`; `AcceptInvitation`,
  `CommitAccept` its transaction; `ResendInvitation`, `RevokeInvitation` and
  `SweepExpiredInvitations` are single statements.
* `PostSignUp`, `RegisterAccount`, `AcceptSignUp` are `handleInviteAccept` without a sign-in: it
  reads the invitation and looks for an account of its address (one step, since only the second
  read is followed by a decision that the acceptance does not make again), makes the account, and
  accepts by the token it read, which a resend replaces (`token`). `account` are the users with
  an account; admins and sign-ins make others (`CreateUser`).
* `Needs(r)` and `NeedsInvites(r)` are the rows the present statement of `r` locks; `WaitsFor(r)` who
  has them, and `MayRun(r)` that nobody has. `DeadlocksAreTransfers` is about circles of `WaitsFor`: two
  transfers in opposite directions lock the two rows in opposite order, and nothing else does.
* `Fail`: a statement fails, or Postgres breaks a deadlock.
* `MayManage`: the role decides, also for an operator, who is an admin only where it has none.
* `fresh` is history: the requests whose count of the owners is still right.
* The branch of `UpdateMemberRole` that moves `owner_id` is not reached: the handlers reject
  the role owner. `WorkspaceRole`'s other fallback (default workspace gives "member") is left
  out because members do not manage. The default workspace of an account is the one made with it,
  so this is about the creator alone. For a creator who is an operator and was removed, `MayManage` is wider
  than the code; the runs have no operators, the theorems have any.

### Access

Every statement of the interceptor is a step of its own, because other requests change what the
next one reads. `users`, `owner`, `member`, `session`, `key` are the tables (`owner` is
`workspaces.owner_id`); `token[s]` is the JWT of a session, which verifies until it expires whatever
happens to the session; `next` the sequences. `call[c]` is a request:

* a gRPC call with a token: `Authorize`, `ValidateSession`, `ResolveHeader` (the header may name any
  workspace), `ReadSessionWorkspace`, `CheckSessionWorkspace`, `ReadDefaultWorkspace`,
  `WorkspaceRole`; with a key: `AuthorizeKey`, `ReadKeyUser`, `WorkspaceRole`; then its handler:
  `UseWorkspace`, or `CreateAPIKey`, `RevokeAPIKey`, or the three statements `RollAPIKey`,
  `RollRevoke`, `RollReplace`;
* a sign-in (`Login`, `CreateSession`, whose error the code drops), a switch of workspace
  (`SwitchWorkspace`, `SetActiveWorkspace`), a deletion of one (`DeleteWorkspace`,
  `CommitDelete`).

Single statements of other requests are single steps: `CreateUser`, `SetActive`, `DeleteUser`,
`CreateWorkspace`, `RevokeSession`, `RevokeOtherSessions`. The transactions of `Membership` are
`SetMember` and `TransferOwnership`, which allow every outcome those transactions have and some they
have not (they do not ask who the caller is). `Cascade` is what the foreign keys do. The REST handlers
ask for a token only, so `DeleteWorkspace`, `SwitchWorkspace` and the revocations do.

`had` is history: which rights the user of a gRPC call had at some moment of the call.
`RightsHeld` and `ViewerNeverWrites` are stated with it. They are as strong as the code is: the
statements read at different moments, so a call may be served although no single
moment had all its rights together, and rights that end while it runs do not stop it.

A role other than viewer is "editor", since the interceptor tells only viewers apart. It holds
back viewers and not a caller without a role; such a call has its default workspace from
`users` (`ReadDefaultWorkspace`) or a key, and is served. `ViewerNeverWrites` therefore says "no
viewer" and not "an editor".

### Providers

One provider name. Postgres statements (and `CreateUser`'s transaction) are steps, and so are the
registry's locked sections.

* `row`: its row of `oidc_providers`; `reg`: its entry in `OIDCManager`, `Absent` when there is
  none. A configuration is whether the provider is enabled and the role auto-registration gives,
  if it is on. The rest of a configuration decides whether an exchange succeeds, which may always
  fail here. `users`: the accounts, with the subjects that have a session of theirs.
* `CreateOIDCProvider`, `UpdateOIDCProvider`, `DeleteOIDCProvider` write the row and go on to
  `Unregister` and `Register`; `DeleteRowOnly` is the gRPC call, which does not. `Abandon` is a
  discovery that fails (the code logs it) or a request cancelled between the two. `Restart` is the
  start of `main`: it registers what the table has; discovery, or reading the table, may fail.
* `OIDCCallback` takes the entry, exchanges the code and verifies the ID token: any subject with
  any e-mail or none. `GetUserByOIDC`, `RegisterAccount` and `CreateSession` follow with the entry
  taken first.
* `CreateLocalUser`, `UpdateUser`, `DeleteUser` are the accounts' other statements; e-mails are
  unique and change hands. `Fresh` takes ids no row and no request refers to.
* One provider has one issuer, so a subject stands for issuer and subject. The roles of accounts
  are left out, as no step here reads them.
* `diverged`, `alone`, `table`, `clean` are history: that something happened that may leave the
  registry unlike the table, that no other admin request overlapped, and what the row was when a
  sign-in began.

## Runs

| Run | Instance | Shows |
|---|---|---|
| `url_limits` | 2 visitors, 1 editor, limit 1, 1 logger slot, 2 rows in succession, database may fail | `OvershootBounded`, `RedirectNeedsLive`, `AutoDisableJustified`, `TypeOK` |
| `url_edits` | 1 visitor, 2 editors, 2 workspaces, 2 targets, a negative limit, both stores may fail | `StaleOnlyIfGone`, `RedirectNeedsLive`, `WorkspaceScoped` |
| `url_orphans` | 1 visitor, 1 editor, no faults | counterexample to `DeadVisitsAreOrphans` |
| `url_stale_cache` | 1 visitor, 1 editor, no faults | counterexample to `CacheFreshAtRest` |
| `logger_shutdown` | 3 visits, 2 workers, buffer 2, 1 connection, database and listener may fail | `CloseDrains`, `ShutdownLossBounded`, `PanicNeedsServeError`, `QueuedIsTaken`, `ShutdownEndsOrSignalLost`, `KeepsPromise` (refinement), `TypeOK` |
| `url_tx` | 2 requests of any kind, 1 code, 2 tags, lists `<<>>` (none, or only blanks) and `<<b, a>>`, 2 connections, statements may fail | `AnsweredIsStored`, `TagsAsRequested`, `RequestEnds`, `TypeOK` |
| `providers` | 1 subject, 2 e-mails, 2 accounts, 2 roles, 2 requests, discovery and requests may fail | `RegistryExplained`, `RegistrationAllowed`, `OneAccountPerSubject`, `SessionsAreOwn`, `TypeOK`, no deadlock |
| `logger_close_returns` | 2 visits, 2 workers, 1 connection, with fairness | counterexample to `CloseReturns` |
| `members` | 3 users, with an account or without, 2 invitations, 2 concurrent requests, statements may fail | `RemovalKeepsOwner`, `TransferToOwner`, `InvitationUsedOnce`, `ResolvedIsFinal`, `DeadlocksAreTransfers`, `TypeOK`, no state without a next step |
| `members_last_owner` | 3 users, 2 requests | counterexample to `AtLeastOneOwner` |
| `access` | 2 users, 2 workspaces, 1 session, 1 request of any kind; or 1 user, 1 workspace, 3 sessions and keys together, 2 requests that write or sign in; statements may fail | `RightsHeld`, `ViewerNeverWrites`, `RolledKeyIsDead`, `PersonalWorkspaceKept`, `TypeOK` |
| `access_homeless` | 2 users, 2 workspaces, no requests | counterexample to `AccountHasWorkspace` |

The counterexamples are sentences of the repository the code does not keep; `PROJECT.json`
"findings" quotes them. For each, a weaker property of a passing run says what does
hold: a stale cache entry never reaches a client while the row can be read
(`StaleOnlyIfGone`), a limit is overshot by less than the visits in flight unless a
COUNT fails (`OvershootBounded`), an orphan is a code that was live and vanished (theorem
`OrphansWereLive`), a shutdown loses less than one visit per worker (`ShutdownLossBounded`) and hangs
only by the lost signal (`ShutdownEndsOrSignalLost`), the last owner goes only when owners change
between a count and its commit (`RemovalKeepsOwner`), an account's own
personal workspace goes only with the account (`PersonalWorkspaceKept`).

Sentences the models contradict without a run of their own. `shortener.go:248` says
`DeleteURL` "soft-deletes", and README item 2.7 "URL soft-delete", but `PostgresStore.Delete`
removes the row (`postgres.go:479-495`), and `CommitDelete` does; this is why a code can be taken
again and why `AutoDisableJustified` and `WorkspaceScoped` are worth stating. README item 2.5,
"Max visits limit (auto-disable after N clicks)": a URL gets more than N clicks when redirects
overlap, by the number `OvershootBounded` gives, and has no limit while its COUNT fails, which counts
as no clicks: `CountClicks` notes such a failure in `limits`.

More of the kind:

* `main.go:248` says of `Close` "flush buffered visit writes". Every worker signals done and
  `Close` waits for one signal, so the pool may close while another worker holds a visit:
  `ShutdownLossBounded` is what is left, and is false with `<= 0` for two workers.
* `invitation.go:169` says `AcceptInvitation` "creates (or upgrades) the user's membership". The
  upsert takes the invitation's role whatever the member has; `ResendInvitation` revives an expired
  invitation without asking whether its user has joined since, and accepting it
  makes an admin a viewer (`CommitAccept`).
* `admin.go:572` says "revoke all other sessions (sign out other devices)", README item 12.2 the
  same. A device that was signed out keeps its token, which `requireAuth` accepts until it expires; it
  may switch the user's workspace or delete one (`SwitchWorkspace`, `DeleteWorkspace`). The gRPC
  interceptor asks for the session (`RightsHeld`).
* `postgres.go:285` says "Auto-generate code with collision retry". The first collision aborts
  the transaction the retries run in, so no retry succeeds (`InsertURL`); the request fails
  with the error of the aborted transaction.
* `store.go:51` (in `data/`) says of the tags of an update "nil = no change, empty = clear all".
  `shortener.go:235` passes a list only when it is not empty, so an empty list clears nothing; a list
  of blanks does, since `setTags` trims its names after it has deleted the links (`retag` in
  `PatchURL`).
* An update of fields keeps two edits of a URL apart by the row's lock, an update of the tags
  alone takes no lock, and two of them leave the tags of both. `TagsAsRequested` says so.
* `auth_service.go:224` says "DeleteOIDCProvider removes an OIDC provider". The gRPC call
  deletes the row; the provider signs people in, and registers them, until the next restart
  (`DeleteRowOnly`, and why `RegistryExplained` needs `diverged`).
* `admin.go:25-26` says a flag "forces password login off"; the gRPC `Login`
  (`auth_service.go:27-63`) never asks for it.

### Bounds

* Two redirects and one edit, or one redirect and two edits, reach every pair of overlapping
  operations. `MaxId = 2` lets a code be deleted and taken by another row while a request of the
  first is in progress. The limit runs use one target and one workspace because they do not
  compare them; the edit run has no logger slots because its properties do not
  mention clicks, and its one limit is negative, which an update may store and no count can stay
  below. Together the two runs take every action.
* `ClickBound = 5` never stops a click of a URL that keeps its limit in `url_limits`: a limit of 1
  plus one slot plus two visitors is reached first, and `OvershootBounded` shows that. The limit
  run has the database fail, so that the bound is checked against every failure but the COUNT's.
* Logger: more visits than buffer places, so that drops happen; fewer connections than
  workers, so that a worker waits while another inserts. `CHECK_DEADLOCK FALSE` because the
  process ends, or hangs in `Close`: the run's liveness properties say which.
* Members: two requests give every pair of transactions, three users let both transfer to
  different users, two invitations allow a superseded and a live one for the same user. There are no operators:
  they only let more be asked for, and each request can be asked for by somebody in most states. `Granted`
  is `{"viewer"}` since the properties ask who is an owner and nothing else; admins come from
  transfers. Every set of accounts that has the creator and the members is an initial state, so
  that invitees sign up or sign in.
* Access: the rights of a call depend on one user, and a second one takes over what the first
  owned; one request suffices there because all other changes are steps of their own. Two
  requests meet over keys, where two keys let one be rolled while the other works, and two
  sessions let one be revoked by the other. The constraint `InScope` keeps the two cases apart: with
  keys there is one account with one workspace, which nothing switches or deletes. The second account
  is not deactivated, as the first one can be. Calls that only
  read take the statements of those that write, whose checks are more; they are left to the
  theorems. Ids are never used again, so a behaviour ends when they are used up: `CHECK_DEADLOCK FALSE`.
* Transactions: two requests make every pair of operations overlap, and every cycle of two. One
  code is contended for by both; a second adds nothing the first does not meet, since tags are shared
  between codes only by their names. `<<b, a>>` against a rename or a deletion lets two requests lock
  tags in opposite orders; it replaces links and adds them, `<<>>` with `retag` takes all away and
  without it leaves them. Two connections are
  the fewest with which two transactions overlap, and then creates can hold the whole pool:
  `CHECK_DEADLOCK FALSE` is for that, as `PoolHeld` is a state nothing leaves.
* Providers: one subject, since what is compared is accounts of one person; two addresses and two
  accounts let an address pass from a local account to the person's and back. Two requests give
  every pair of admin requests and sign-ins.
* Symmetry is used for visitors, editors, slots, users other than the creator, requests,
  invitations, e-mails and accounts, and in no run with a liveness property.

### Fairness

`VisitLogger`: weak fairness of each handler, worker, orphan writer and of
main after it left Serve: Go's scheduler runs every runnable goroutine, and a query ends (it has a
connection, and the database answers or fails). Nothing is assumed of new requests, of the signal,
or of listener errors. Two workers that wait for one connection need no strong fairness
here because the visits are finite in number. `QueuedIsTaken` and `ShutdownEndsOrSignalLost` are
checked, and `CloseReturns` is refuted, under this fairness.

`UrlTx`: strong fairness of each request's own steps. A request that waits for a connection or a
lock is enabled again and again, not always; pgxpool hands out connections, and Postgres locks,
in the order of the waiting, so it gets its turn. `BreakDeadlock` is among the steps:
Postgres's detector runs after `deadlock_timeout`. Nothing is assumed of new requests, failing
statements or panics. What remains is the pool: `Get` within Create's transaction needs a second
connection, and when all are held by creates of taken slugs no request goes on. There is no timeout,
as the store passes `context.Background()`. `RequestEnds` excepts that state and nothing else.

## Proofs

Six modules hold 31 theorems with the lemmas they rest on: for every safety property of a
passing run, invariant or action property, and for the refinement. Each needs its
module's named assumption on the constants (`UrlStoreAssumption`, `UrlTxAssumption`, ...) and
nothing else: finite sets of whatever is counted, ids and capacities that are natural numbers.
Faults, kinds of request, limits, patches and lists of tags are arbitrary. TLC has checked each
inductive invariant on the runs above before it was proved.

Every proof has the same plan: an invariant made of named parts, one lemma per part that says
every step keeps it, with a step per action, and theorems read off the invariant.

### UrlStore_proofs

* `TypeCorrect`: `Spec => []TypeOK`.
* `RedirectsNeedLiveCode`: `Spec => []RedirectNeedsLive`.
* `StaleTargetsAreRare`: `Spec => []StaleOnlyIfGone`.
* `OrphansWereLive`: `Spec => []OrphanInv`, an orphan is of a code that was live and then gone or unreadable.
* `EditsStayInTheirWorkspace`: `Spec => WorkspaceScoped`.
* `OnlyReachedLimitsDisable`: `Spec => AutoDisableJustified`.
* `OvershootIsBounded`: `Spec => []OvershootBounded`.

The argument for the redirect is `RedirectInv`. None of its properties is inductive: they
speak of an answer that was prepared steps earlier. `WatchInv` says that the history of a running
redirect contains the row as it is now, so a guard that looks at the row is a fact about
the history. `LiveInv` says of a redirect past Load's SELECT that its history contains a live
row; `StaleOnlyIfGone` and `OrphanInv` become inductive beside these and are conjuncts.
`AbsentInv` ties the absent row to no target and no clicks. `RedirectStep` has a step
per action; those that change the row use that `Observe` only adds to histories, the others that
they leave the histories or add to them (a failed read adds the absent row).

The argument for the limit is `LimitsInv`. `AutoDisable` runs after a count that may be old; it
is justified because clicks of a row never decrease and limits are never forgotten while the row
has its id. `IdInv` says ids are fresh (a redirect never holds the id of a row to come),
`LimitInv` that the present limit is in the history, `CountInv` that a redirect about to count
holds a limit of the row if the row is still the one it loaded, `DisableInv` that one about to
disable has seen the limit reached, or a row that is gone.

The overshoot is a count of what is under way. A visit passes the check while the clicks are
below a limit, and only then is it in flight: past the check in a redirect (`Passing`), then in the
logger, then in the clicks. `FlightInv` bounds the sum: clicks, queued visits and passing redirects
stay below some limit the row has had plus all slots and visitors there are. A move from one
place to the next keeps the sum; only the check itself adds to it, and there the sum without the
clicks cannot exceed the room; a check whose COUNT failed adds `Unlimited` to the history, and the
bound is claimed no more. `PlaceInv` (no slot holds the id of a row to come) keeps visits of a
deleted row from being counted for its successor.

### UrlTx_proofs

* `TypeCorrect`: `Spec => []TypeOK`, with it that every link is of a stored URL and a stored tag.
* `AnswersAreStored`: `Spec => AnsweredIsStored`.
* `EditsSetTheirTags`: `Spec => TagsAsRequested`.

Both action properties speak of one step, the commit, and of what it publishes; why it publishes
the right thing is the history of the transaction, and what all others may do at the same time.
`TxInv` has four parts beside the types:

* `StageInv`: what a request's transaction has written, locked and still has to do, by its program
  counter, alone; also that after an error there is nothing of it left but the steps to the failing
  commit.
* `UrlInv`: the locks of rows. A locked row is that of the code and is nobody else's; a row to be
  inserted is the first of its code, with a new id; the id a request works with is that of a row.
* `TagInv`: the same of tags, and that a tag's lock means it is there.
* `LinkInv`, what the properties need: `DoneOK`, each link added is to a tag of the list and
  each tag the request is through with has its link, under a name that stays with its id because
  `HasTag` (the transaction inserted it, or locks it); and `CalmOK`, while no other edit
  interfered (`calm`), no link is left that the request does not know of and has not removed.

That foreign keys hold at every step (`TypeOK`) is why the cascades must be part of
it: a deletion waits for the requests that add links to the row, which `RowInv` and
`TagLockInv` carry from the statement to the commit. The abort is the other half: the code drops
the error of `setTags`, and the create is right all the same because `Stage` says that an aborted
transaction cannot reach a successful commit. For each action the proof shows first what it does to
its own request, then that this is a move the others' parts of the invariant survive
(`UrlMove`, `TagMove`, and `Similar` for what cascades do to other requests' ids).

### VisitLogger_proofs

* `TypeCorrect`: `Spec => []TypeOK`.
* `SignalNeverPanics`: `Spec => []PanicNeedsServeError`.
* `CloseDrainsBuffer`: `Spec => []CloseDrains`.
* `LossIsBounded`: `Spec => []ShutdownLossBounded`.
* `LoggerKeepsPromise`: `Spec => KeepsPromise`, the refinement of `VisitPromise`.

`LoggerInv` says by where main is what cannot happen any more (`MainInv`: no handler runs once
the server is drained, unless Serve failed), when a worker leaves its loop (`WorkerInv`: only with the
channel closed and empty), that a waiting visit is in one place and not yet written
(`PlaceInv`), and how many are nowhere (`LossInv`): none while the pool is open, afterwards
fewer than the workers, counting those that still have one in hand, since one worker has signalled
and has none. The refinement has one lemma per kind of step of `VisitPromise`: each
action of the logger changes the status of at most one visit, in a way the promise allows, or none.

### Membership_proofs

* `TypeCorrect`: `Spec => []TypeOK`.
* `CountedRemovalKeepsOwner`: `Spec => RemovalKeepsOwner`.
* `NewOwnerIsOwner`: `Spec => TransferToOwner`.
* `AcceptanceUsesInvitation`: `Spec => InvitationUsedOnce`.
* `ResolvedStays`: `Spec => ResolvedIsFinal`.
* `DeadlockedByTransfers`: `Spec => []DeadlocksAreTransfers`.

`MembershipInv` is a statement about row locks. `LockInv`: no row and no invitation is locked by
two requests. `RelyInv`: what a request has locked is as it was when it was read (the row of a
member is there, the invitation is pending and has the role the request is about to grant).
Each action is shown to touch nothing that another request has locked; the two together
carry what a transaction read to its commit. What `RelyInv` says of locks at each statement is also the
argument about deadlocks: who waits in a circle waits and is waited for, hence holds a lock and
asks for another, and only a transfer that is about to demote does, with the row of its new owner.
`FreshInv` says what the count of owners is worth while no commit changed them: two owners. `AccountInv`: accounts are never deleted here, so a member
has one.

### Access_proofs

* `TypeCorrect`: `Spec => []TypeOK`.
* `RightsAreHeld`: `Spec => []RightsHeld`.
* `ViewersDoNotWrite`: `Spec => []ViewerNeverWrites`.
* `RolledKeysAreDead`: `Spec => []RolledKeyIsDead`.
* `PersonalWorkspacesStay`: `Spec => PersonalWorkspaceKept`.

`HistInv` says for each statement of the interceptor which right the call has been seen to have once
it is past it; that is what makes the rights of a served call inductive, as the tables
themselves may have changed. `KeyInv` is about generations of keys: a parent was inserted before its
child and is not live, nor is a key between the second and third statement of its roll. `HomeInv`
is why deleting a workspace spares homes although it decides on an earlier read: a home is only given
to an account as it is created, with a workspace created with it, so the workspace that was not
the user's home at the check is never going to be. `BoundInv` and `CallInv` are for the types: an id is left for each
row about to be inserted (the sequences never overrun `MaxSession` and `MaxKey`), and a request
carries what its next statement needs.

### Providers_proofs

* `TypeCorrect`: `Spec => []TypeOK`.
* `RegistryIsExplained`: `Spec => []RegistryExplained`.
* `SessionsAreOfTheSubject`: `Spec => []SessionsAreOwn`.
* `OneAccountEach`: `Spec => []OneAccountPerSubject`.
* `RegistrationsAreAllowed`: `Spec => RegistrationAllowed`.

`TypeInv` adds to the types what a request carries from one step to the next: an entry on its way
to the registry is enabled, a sign-in has a subject, one that opens a session has an account.
`RegistryInv` adds `AloneInv`: an admin request nobody overlapped is the only one and carries the
row as it is, so what it leaves in the registry is the row. `AccountInv` adds `UniqueInv`, the
unique index as a statement about pairs of accounts (the cardinality follows), and `OwnInv`: the
account a sign-in holds has its subject or is gone, which lasts because no account is made with
an id a sign-in holds (`users.id` is a sequence, which never gives an id twice; `Fresh`).
`ClearInv` needs `RegistryInv` at one step, where a sign-in reads the entry while it is known to be
the row; afterwards the sign-in keeps the entry and looks at no other.

### What stays with TLC

`RequestEnds` of `UrlTx` and `QueuedIsTaken`, `ShutdownEndsOrSignalLost` of `VisitLogger` are
liveness: they rest on fairness, which TLAPS does not reason about (nor about ENABLED). That the
providers and the members have no deadlock is a statement about ENABLED too. What the code does not
keep (`CacheFreshAtRest`, `DeadVisitsAreOrphans`, `AtLeastOneOwner`, `CloseReturns`,
`AccountHasWorkspace`) is refuted by TLC; the theorems that say what holds in their place are
`StaleTargetsAreRare`, `OrphansWereLive`, `CountedRemovalKeepsOwner`, `LossIsBounded` and
`PersonalWorkspacesStay`.

## Not modelled

* Of accounts: the platform role, passwords, profile, settings and sign-in history; of API keys:
  scopes. They are compared where a call comes in and written by single statements.
* The e-mail in a token against the account's own: `AcceptInvitation` compares the address of the
  invitation with the token's, which is the one the account had when it signed in. `Membership`
  identifies an address with its user; addresses that change hands are in `Providers`.
* In `Membership`, `WorkspaceRole` reads the membership and the owner in one step, and the code in two
  statements: a role given or taken between the two can be missed. Its properties do not ask who a
  caller is; `Access` has the statements of the interceptor one by one.
* The exchange with an OIDC provider, its keys and tokens; which provider a state belongs to.
* Legacy `Save` and the unused `UpsertMembership`; titles, formats, validation of
  URLs and slugs: no effect on the modelled state.
* `List`, `Stats`, analytics, previews, `ListTags`, `GetTagStats`: they read only, each within
  a statement or a transaction the database evaluates. (`List` asks for the tags of each row on the
  connection whose rows it still reads, `postgres.go:608`; the driver refuses that, the error is
  dropped, and a listing has no tags. It is a matter of one request.)
* The REST gateway (routing and translation), mailer (errors are logged), configuration (read once),
  legacy Redis store (not constructed), user-agent parsing and QR codes (pure functions), the
  frontend server (stateless), the browser UI.
* Generated code: `backend/pb` and `frontend/pb` are about 15,400 of the 23,400 lines of
  implementation, stubs and messages without rules of this program.
* Start-up and migrations: sequential, exit on error (registering the OIDC providers is in
  `Restart`).

## Plan

Done, in this order because redirects are what the system is for: `UrlStore`,
`VisitPromise` and `VisitLogger`, `Membership` with invitations, `Access`, `UrlTx` with the pool and
tags, `Providers`; then a module of proofs for each. What changes state concurrently is modelled, and
every safety property of a run is a theorem.

Theorems to come: that `UrlStore`'s slots keep the promise of the logger, which `VisitPromise`
states (so far the two have the same form by inspection); the life of an invitation and that of the
row of a code as abstract specifications, implemented by `Membership` and `UrlTx`.
