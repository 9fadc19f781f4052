# SEASYN: TLA+ models, checks and proofs

SEASYN moves tables between Postgres, MySQL, SQLite and MongoDB. A Go backend (Fiber, GORM)
keeps accounts, organizations, projects, connections and migration jobs in its own database and
runs each migration in a goroutine; a React frontend (react-query, zustand) drives it. Paths are
relative to the root of the repository; `internal/` stands for `backend/internal/`, frontend paths
for those under `frontend/src/`.

## 1. Inventory

| Component | State | Operations | What is hard | What makes it correct |
|---|---|---|---|---|
| Migration service, `internal/services/migration/service.go`, `repository/migration_repo.go` | lock map, cancel functions, a context per job, status column | StartMigration and its goroutine, CancelMigration | requests, goroutines and deletions interleave; status writes fail unnoticed; a crash forgets the maps and keeps the rows | one job per key; no lock left behind; row, notifications and end of stream agree; a row only moves forwards |
| Streaming pipeline, `.../migration/streamer.go`, `internal/adapters/*/connection.go` | `rowCh` (4), `errCh` (1), position of reader and writer | Stream, StreamRows, BulkInsert | select order, cancellation at any point, partial inserts, silent end of a read | the target is an initial part of the source at a batch boundary; success means all rows; bounded memory |
| Progress hub and SSE, `.../migration/progress_hub.go`, `http/handlers/migration_handler.go` | subscriber lists, a channel per client | Subscribe, Unsubscribe, Broadcast, Close, StreamProgress | Close and Unsubscribe meet on one channel; slow and late clients | no panic, no residue, nothing lost unless a channel is full |
| Authentication and session client, `services/auth`, `http/middleware/auth.go`, `api/client.ts`, `useAuth.ts`, `authStore.ts`, `ProtectedRoute.tsx` | cookies, denied tokens and rotations in memory, the tabs' store and shared refresh call | sign in and out, refresh, boot of a page | many 401 at once, rotation in several steps, answers with cookies out of order, restarts | nobody is signed out without a cause; one refresh per tab; every request and page load comes to its end |
| Account, `services/auth` and `services/users`, pages for sign-up, verification, password, profile | row of `users`, one-time codes, forms and profile query of each tab | every form and callback | handlers of several database calls; whole-row updates; a code replaced in two calls | newest code stands, user names unique, verification never lost, own changes shown |
| Organizations, `services/orgs`, switcher, dialogs, members and settings pages | organizations, memberships, list and member queries, active organization | create, update, delete, invite, change role, remove | count and write are two calls; the switcher's effect reacts to old lists | one owner; quotas and cascade hold but for two named races; own changes shown |
| Connections of projects, `services/project`, wizard, lists, edit modal | rows of connections, lists of a browser, the wizard's form | create, update, delete, test, project deletion | quotas, whole-row updates, cascade, copies in forms, late answers | a deleted row stays deleted, a password stays, a quota breaks only in a named race; what is verified is what is saved |
| Migration pages, `useMigrationStream.ts`, wizard, list, live page | event stream, polled queries, wizard | launch, watch, cancel | the stream is ahead of the row; answers arrive late; every render reopens the stream | no end is shown that did not happen or is taken back; polls catch up |
| Schema studio, `services/editor`, `useSchemaExplorer.ts`, `useTableMutations.ts`, grid and document views | tables and rows of a database, cached pages, dialogs | choose, page, sort, search, insert, edit, delete | dialogs outlive their table; old answers after a write | a dialog writes the table it shows; no page goes back in time; own writes shown |
| Schema diff, `services/editor/service.go`, diff page and viewer | two schemas, one cached comparison per pair | compare, inspect, export | answers to an earlier pair or press | comparison exact; SQL closes what it covers; what is shown is of the pair |
| Webhooks `services/webhooks`, audit log `services/audit` | hooks, deliveries, log | DispatchEvent, Log | a goroutine per delivery | seen by the service's model as what is issued, not as what is delivered |
| Schema transformer, HTTP handlers, analytics, encryption, mail, project pages and dashboard, landing and legal pages | none, or a list with its dialog | | | not modelled (section 7) |

How they interact: the service calls the repository, the streamer, the hub, audit log and
webhooks; the streamer calls two adapters through channels and broadcasts to the hub; SSE handlers
read the hub's channels; the live page reads one such stream and polls the row. Project and
organization deletion removes rows without telling the service. Pages call handlers, and keep what
was answered in the query cache under keys that mutations invalidate. Every hard-to-test point with
its line is in `PROJECT.json`, `hazards`.

## 2. Modules

```
MigrationLifecycle   <- implemented by -  MigrationService    handlers, goroutine, cancel, deletion, crash
                                            MCMigrationService  its TLC instance
StreamPipeline       one job's reader, channels and writer
ProgressHub          one job's fan-out to SSE clients
Session              cookies, refresh rotation, tabs and their client
Account              one account, its codes, its forms and its profile page
Workspace            organizations, members, one browser's switcher and dialogs
ConnectionWizard     the dialog that adds a connection
Connections          rows of connections, lists of a browser, edit modal
MigrationConsole     list, wizard and live page of migrations
SchemaStudio         a database's tables, cached pages and dialogs
SchemaDiff           comparison, exported SQL and the page around it
MigrationProofs      theorems of MigrationService and ProgressHub
RowProofs            theorems of StreamPipeline and SchemaStudio
PageProofs           theorems of ConnectionWizard and MigrationConsole
SessionProofs, AccountProofs, WorkspaceProofs, ConnectionsProofs, SchemaDiffProofs
```

Where one module of proofs is about two components, the definitions of one of them carry its name
(`HubInit`, `ConsoleNext`, `StudioSpec`); nothing else connects the two.

A definition with a name like `CreateRow_Leak` is not part of a specification. It is the operation
that follows it with a bug a programmer could make, and a property must fail when it takes the
operation's place (`PROJECT.json`, `mutants`). `PROJECT.json`, `map`, has the lines of code of every
definition; what follows is how to read each module. A property whose comment begins with
"Refuted" is stated for section 5 and belongs to no run.

**MigrationService.** One program counter per start request (`startPC`), per goroutine (`jobPC`) and
per cancel request (`cancelPC`). A step ends at each database call, `sync.Map` operation or context
operation, where other goroutines can come in between. `service.go:75-105` is `CheckRequest`, `:108`
`AcquireLock`, `:130-134` `CreateRow`, `:137-142` `CountRows`, `:144-176` `Launch`, `:182-260`
`MarkRunning` to `NotifyOutcome`, the deferred calls `:177-179` last first `CloseHub`,
`DropCancelFunc`, `ReleaseLock`; `:268-294` `CancelRead`, `CancelLoad`, `CancelCall`.
`UpdateStatus` does nothing when the context is cancelled or the row is gone, the database may refuse
it, and callers ignore the error. `Crash` is the end of the process and its start with empty maps.
`MigrationLifecycle` is what this promises of a job's row: active jobs have different keys, only an
active job's row changes and only forwards, a deleted row does not come back.

**StreamPipeline.** The producer is the goroutine of `StreamRows`, the consumer `Streamer.Stream`. A
row is its number in the source. Each `select` case is an action, since Go picks any that is ready.
`ReadRowsSQL` may stop after any row without an error because `rows.Err` is not asked;
`ReadRowsMongo` reports every failure. An insert is two steps, so that a cancellation can come while
the statement executes; a SQL statement is all or nothing, but its acknowledgement may be lost, and
`InsertMany` may leave any first part. Assumed: the source does not change while it is read.

**ProgressHub.** One job and a set of clients. Each hub method runs under the mutex and is one step.
`Receive` and `Flush` are the loop of `StreamProgress`, `Leave` its deferred `Unsubscribe`; the
handler learns of a client that has gone from a failing `Flush`, not necessarily the first.

**Session.** Pair i is the access and the refresh token `generateAuthResponse` made i-th; the cookie
jar, which all tabs share, holds one pair or none. A request goes through the steps of the middleware
or of `RefreshToken` (`LookupRotation`, `ValidateRefresh`, `StoreRotation`, `DenyOld`, `Recheck`), then
its answer waits until `Receive`, in any order with the others. The interceptor of `client.ts` is
`Receive401`, `Awaiting`, `Resume` and `GiveUp`, the boot query `SendBoot` and `ReceiveBoot`. `Restart`
empties the server's maps. Every value that the middleware has read before a step is kept in the request.
`ended`, `lost` and `stale` are history: which sign-ins were logged out, whether an answer was lost with
its cookies, and whether an answer put a pair into the cookies that had been rotated since. `MaxPairs` bounds
the pairs that are made: a request that would make another one waits at that step.

**Account.** A form of a tab has one call, which runs through the handler's database calls
(`Following`) and then the page's callback. The row keeps what the properties tell apart: existence,
verification, user name, a version for `updated_at`. `Fault` is a failed database call or a lost
answer. Codes that were typed are codes that were mailed: guessing is out of scope.

**Workspace.** The organization service's handlers in their database calls, from the modelled browser
and from other users' clients. The switcher's effect is part of every action that changes what it
depends on (`SyncOrg`). `raced`, `orphaned`, `botched` and `bounced` are history: which race or failure
explains what a property excepts.

**ConnectionWizard.** The form holds classes of values (endpoint with or without database, whose
preset the port is, kind of connection string). The state outlives the dialog, as the hook's does.

**Connections.** A row's host and password are named after the request that wrote them, so that an old
value is recognized wherever it comes back. A list is a snapshot together with the requests that had
been carried out when it was read.

**MigrationConsole.** The server side is a row, a goroutine and the events on their way; the browser
side the wizard, both queries with their timers, and the stream, which every change of state on the
live page closes and opens again (`Rerender`). `mounted` is history: the job of a live page that has shown
no other job since it was mounted, or 0.

**SchemaStudio.** A table is the number of its rows and a version that every write raises; a page is
the version it was read at. The query cache's behaviour (joining a fetch under way, refetching on
invalidation) is modelled from how the pages use the library and is marked external.

**SchemaDiff.** Schemas are functions from tables to functions from columns; the comparison and the
SQL are operators over them. The page keeps one answer and one request per pair.

## 3. Runs

All runs set `CHECK_DEADLOCK FALSE`: requests, visits and faults are bounded and a job ends, so a state
without successors is the normal end. That nothing stops too early is what the liveness properties
say. A property that ends in `Sound` is the conjunction of a component's type invariant and of its
named parts; each part has a mutant or was broken by one on the way.

| Run | Instance | Shows |
|---|---|---|
| `service` | 2 starts for one key, 1 cancellation, 1 deletion, 1 crash | `OneJobPerKey`, `LockMapExact`, `NotificationsMatchRow`, `ClosedMeansTerminal`; implements `MigrationLifecycle` (`LifecycleSpec`); `LockReleased`, `OutcomeRecorded` |
| `pipeline` | 0 to 13 rows, batch 2, channel 4, each pair of kinds | `TargetSound`: target in order, in whole batches, count follows it; `ChannelsSound`: types, bounded memory, discipline of both channels; `CompletedIsComplete`, `CancelBounded`; `StreamReturns`; `ProducerEndsOrIsStuck` |
| `pipeline_lost` | a table of 3 rows | finds the lost rows of section 5 |
| `hub` | 2 clients, channel 2, 3 running events | `NoPanic`, `SubscribersExact`, `NothingLostUnlessFull`, `SubscribersLetGo` |
| `session` | 2 tabs, 2 requests at a time, 5 pairs, 1 sign-in, 1 expiry, 1 reload, restart or lost answer | `SessionSound`: the cookies of a session can be used (`JarUsable`), `OneRefreshPerTab`; `SignedOutForCause`; `RequestsSettle`, `BootSettles` |
| `account` | 2 tabs, 3 forms of which 2 at a time, 2 codes, 1 fault | `AccountSound`: `NewestCodeStands`, `UsernameUnique`; `OwnWritesShown`; `VerifiedStays` |
| `workspace` | 2 users, 3 organizations, quotas of 2, 3 requests of which 2 at a time | `MembershipSound`: `OwnerHolds`, `QuotaRaceOnly`, `OrphanRaceOnly`; `OwnChangesShown` |
| `wizard` | 2 openings, 2 saves, 1 lost answer | `WizardSound`: `VerifiedIsSaved`, `OneRowPerOpening`, `CredentialsDropped`; `SaveSettles` |
| `connections` | 1 project, quota 2, 3 requests | `ConnectionsSound`: `QuotaRaceOnly`, `OrphanRaceOnly`, `PasswordKept`; `OwnWritesShown`; `GoneForGood` |
| `console` | 2 connections, 1 job, 3 visits, 1 event under way, 1 fault | `ConsoleSound`: `EndIsReal`, `StreamEndsWithJob`, `TableOfSource`; `NoRegress`; `PollCatchesUp`, `ListCatchesUp` |
| `studio` | a SQL and a document database of 2 tables, 2 rows, 1 write of each side, 1 move, 1 fault | `StudioSound`: `DialogOfTable`, `OwnWritesShown`, `BusyDialogWaits`; `NoOlderRows`; `WaitsEnd` |
| `diff` | 2 databases of at most a table of at most a column, 2 choices, 2 presses, 1 change, 1 fault | `DiffSound`: `DiffExact`, `ExportCloses`; `PageSound`: `ShownIsOfPair`, `CompareShowsNow` |

Why the bounds are enough. Two requests for one key are what the lock is about. Thirteen rows in
batches of two are one batch more than the channel, the producer and the consumer hold. The hub's
capacity is 2 instead of 20 so that three events and the final one overflow it. A check-then-write
race needs two handlers, and a quota of 2 a third row; three requests allow one before the two, or one
after them. Two tabs and two requests are the smallest case of the shared refresh call, five
pairs are what the other bounds let be made. With two requests `stale` never becomes true; a run that is
not kept, with three requests of one tab and no faults (216 846 states), finds no error and refutes `JarUsable`
without that exception. `Entry = {t1}` in `session` loses nothing: there is one
sign-in, and the tabs differ in nothing else. The tabs of `account` are declared symmetric; that run
has no liveness property. A lost answer, a failed database call, a restart or a project deletion each
happens once, at every point. The proofs of section 4 cover all other sizes.

Fairness. `service`: weak fairness for each launched goroutine, each start request after its checks,
each cancellation after its read: the Go scheduler runs what can run, and a database call ends with a
result or an error. Requests, deletions and crashes need not happen. `pipeline`: of producer and
consumer; a `select` is not fair, a cancellation need not come. `hub`: of the job and each handler.
`session`: weak fairness of each request (`Server`, `Receive`), strong fairness of a tab's boot, since
the model's slots for requests may be taken by others again and again while a browser has room for
all. `wizard`: of the answer of each save. `console`: of the polls' timers and answers; nothing is
asked of job, stream or user. `studio`: of fetches and saves together, of which there are finitely
many. `account`, `workspace`, `connections` and `diff` check safety only.

## 4. Proofs

Each theorem holds for every value of the constants, from the module's one assumption. The
assumptions say that bounds are natural numbers (quotas and `MaxCalls` of `Account` positive), that
sets of tabs, users or clients that are counted are finite, and that special values are none of the
ordinary ones.

All safety invariants and all action properties of the runs are proved. By module:

**MigrationProofs, the service.** `TypeCorrect` (`TypeOK`, with the conjunct `VerdictTaken` that the branch
is known once the goroutine records). `LockExcludes` and `LockMapCorrect`: `OneJobPerKey` is not
inductive, because that a new holder's key is free follows only when the map is exact, and that
`Delete` removes nobody else's key only when holders exclude each other; `Exclusion` is both.
`CancelFuncsCorrect`. `ServiceImplementsLifecycle`: `RowInv` gives the row's status at every step; with
it each action is a step of `MigrationLifecycle` or a stutter. `ClosedAfterOutcome` and
`NotificationsAgree` from `NoticeInv`: what was issued at each step and from where the row is settled,
including what a killed goroutine may have left.

**MigrationProofs, the hub.** `HubDoesNotPanic` and `HubForgets` from `HubInv` (the list and the states of the
channels agree, which is why nothing is closed twice), `HubTypeCorrect`, and `NothingIsLost` from `Flow`:
what the client has received, what its handler holds and what its channel holds are together
everything broadcast since it subscribed.

**RowProofs, the pipeline.** Three layers, each relying on the ones before: `Shape` (types and where each
goroutine can be), `Log` (what the producer sent is an initial part of the source, in order), then
`Writing` with `Results` (what the consumer has made of it). `ChannelsAreSound` follows from the first,
`TargetIsSound`, `CompletedIsWhole` and `CancelIsBounded` from the last. None of the four is inductive:
that a target is whole at the end needs that the channel was closed by a producer at the end of the
source, which needs the account of every batch between the two.

**AccountProofs.** `AccountIsSound`, `WritesShown`, `VerifiedForGood`. `VerifiedStays` is the
interesting one: `Update` writes `is_verified` back as the handler read it, and only the pages'
guard keeps such a handler from running for an account that is not verified yet. The invariant
`CallSound` carries that from the guard through the handler's reads to its write, and `Known` says
that no store, query or call holds anything the row has not been. `NewestCodeStands` needs
`OneWelcome` (the code for a new account is asked for after the sign-up), or the sign-up's callback could
break off a call between its deletion and its insert. `VersionCounted` counts calls yet to write, and
makes the types provable.

**WorkspaceProofs.** `MembersAreSound` from `TypeInv` and `MemberInv`, which says of each step of a
handler what the checks behind it still guarantee when the write comes: nobody has a permission in an
organization without an owner, a write is never aimed at an owner, a user who was counted has room
unless two additions overlap. `ChangesAreShown` from `ShownInv`.

**ConnectionsProofs.** `ConnectionsAreSound` from `TableInv`: a creation between its count and its
insert has room unless another overlapped it (`Room`, `Raced`), what an update has read is the last
saved password unless another overlapped it (`Reads`), every row is the work of one creation (`Made`,
`Aimed`). `GoneIsGone` is an action property from the same invariant, `WritesAreShown` follows from an
invariant of the lists (`UpToDate`).

**SessionProofs.** `SessionIsSound` and `TabsStaySignedIn`, for any number of tabs and of requests under
way. `JarUsable` fails to be inductive because `RefreshToken` works in steps: between storing a rotation
and revoking the old token, and between that and the arrival of the answer, the cookies hold a token that
somebody is about to replace. `Core` says what each step leaves for the next: a revoked refresh token was
rotated first (`RotatedDenied`, `DenyRotated`), the rotation is kept as long as a request needs it (`Kept`),
an access token is revoked with its session only (`RevokedEnded`), and cookies that were revoked have an
answer on its way that replaces them (`Awaited`). `Budget` counts the sign-ins still to be answered, without
which the types are not inductive. `OneRefreshPerTab` follows from `Single`: the tab's refresh call is the
one its `refreshPromise` stands for. `SignedOutForCause` needs `Fresh` besides: no clock moves while a second
attempt is under way, so the token it was given has not run out.

**PageProofs, the wizard.** `WizardIsSound` from `WizardInv`, which replaces `OneRowPerOpening` by what
makes it so: at most one save is under way, it belongs to the opening that the button was enabled in,
and an opening whose save has succeeded is over (`SaveDiscipline`).

**PageProofs, the console.** `ConsoleIsSound` and `EndsStayShown` from `ConsoleInv`. What the live page
shows has two sources, the polled row and the stream, and `EndIsReal` says that they agree on an end.
`JobsKnown` has that an ended row has an ended goroutine, `EndsRead` that an end which the query or its fetch
has read is still the row's, `StreamOfJob` that after `completed` the channel brings only the end of the
stream, for a job whose row will not become anything else (`Won`), `TableKnown` that the wizard's table is
its source's. `NoRegress`, an action property, follows from `EndsRead`.

**RowProofs, the studio.** `StudioIsSound` and `PagesNeverGoBack` from `Parts`, in four parts that a step
keeps for different reasons. `RowsGood` orders what was read and written: a cached page is not newer than
its table, an answer on its way is not older than the cached page (`ReadInOrder`), and an answer read by a
fetch that was sent after one's own write has the write in it (`OwedInOrder`). Most steps keep it since
whatever they fetch has yet to be read (`Asks`); only `Receive` and the writes need more. `WriteGood` has
that a request applied made a write its table has seen (`AppliedInOrder`), and that every write was asked for
(`WritesCounted`), which bounds the versions by a count of requests. `ViewGood` and `DialogGood` are about the
screen and the dialog on it. `PagesNeverGoBack` is an action property from `ReadInOrder`.

**SchemaDiffProofs.** `ComparisonIsExact` and `ExportDoesClose` are about the operators and any two
schemas, of any number of tables and columns; `DiffIsSound` applies them to every state. `PageIsSound` from
`PageInv`: what is kept under a pair was asked with that pair, and a press that was not answered has a
request that has read nothing older than the press.

TLC checked each inductive invariant on a small instance before it was proved. The attempts changed models:

- `Session`: `JarUsable` and `SignedOutForCause` were false with three requests, which no run has: one request
  rotates the pair, a second finds the rotation and is slow, a third is refused in between and its refresh
  call rotates the new pair; the second's answer then puts the rotated pair back. The properties except
  this case now (`stale`), and `JarUsable`'s comment describes it.
- `MigrationConsole`: with two launches, the live page may go from one job to another and back while an
  event of the first is on its way; `mounted` took the second visit for the first. It is history and
  decides no step.
- `SchemaStudio`: the fetches of a finished mutation got a name (`FetchedAgain`), the type invariant says
  what a fetch is.
- Form only: `Workspace` picks the newest organization by a condition instead of a maximum over a set,
  `SchemaDiff` and `Connections` write one record out.

Only model-checked: every liveness property (`LockReleased`, `OutcomeRecorded`, `StreamReturns`,
`ProducerEndsOrIsStuck`, `SubscribersLetGo`, `RequestsSettle`, `BootSettles`, `SaveSettles`, `PollCatchesUp`,
`ListCatchesUp`, `WaitsEnd`), and with them the fairness of section 3. `ENABLED` and fairness are outside the
prover.

## 5. Where the code differs from what is written about it

`pipeline_lost` is a run: a read that breaks between rows completes the migration with rows missing,
against `Docs/testing/Phase_5_Migration_Engine.md:86`; `PROJECT.json`, `findings`, quotes it.

TLC also refuted the following, in runs that are not kept. Those that a module states say "Refuted" in
their comment:

- Migration: a cancelled job's row never says `cancelled`, since the write goes through the cancelled
  context; a producer whose consumer has gone waits for ever in a full channel (`ProducerEnds`,
  `backend/README.md:254`); a reported read error can lose against the closed row channel; a stream
  opened after its job has ended does not end.
- `Session`: a request that rotated the tokens before a logout and is answered after it brings the session
  back (`LogoutFinal`, `Master_QA_Manual.md:68`, `:92`); a refresh token is refused within its grace period
  (`GraceHolds`); with three requests a slow answer puts a pair back that was rotated since, and once its
  rotation is forgotten the session cannot be refreshed (`JarUsable` without `stale`).
- `Account`: the reset page never resets a password (`ResetByCode`, `Master_QA_Manual.md:90`); two tabs set
  a user name twice (`UsernamePermanent`); the store takes another name than the one saved
  (`StoreUsernameReal`); a verified user may stay on the verification page (`VerifiedIsRedirected`,
  `VerifyEmail.tsx:26`).
- `Workspace`: the last organization stays active after its deletion (`DeletedNotActive`,
  `OrgSwitcher.tsx:50`); the switcher leaves an organization just created (`SyncOnlyWhenGone`,
  `CreateOrgModal.tsx:82`).
- `ConnectionWizard`: a connection string passes the form and not the server (`UriSuffices`, `validators.ts`,
  `domain/database.go:71-108`); `EngineSynchronized` (`useConnectionWizard.ts:117`); a late answer closes
  another dialog (`OwnAnswerCloses`); a pasted string loses its port (`PasteKeepsPort`,
  `UriQuickPasteBar.tsx:40`).
- `Connections`: the list of all projects misses changes made elsewhere (`OverviewCurrent`,
  `queryKeys.ts:4-5`); an edit writes back fields it read before another's edit (`EditKeepsOthers`).
- `MigrationConsole`: a failed or cancelled end may never be shown (`ShownCatchesUp`,
  `MigrationLivePage.tsx:46`); the stream is reopened at every change (`StreamMaintained`,
  `Docs/README.md:350`); source and target may be one connection (`SourceIsNotTarget`,
  `Step2TargetSelection.tsx:32`); a second job's page shows the first one's end (`EndIsOwn`).
- `SchemaStudio`: page and order stay when table or database changes (`PageInRange`, `SortOfTable`); other
  pages keep older rows (`PagesAgree`); `OwnWritesAlwaysShown`, `OwnAnswerCloses`.
- `SchemaDiff`: the exported SQL alters no column and creates tables without the source's columns
  (`ExportSuffices`); a column only the target has is labelled identical (`DifferenceLabelled`); the
  inspector keeps another answer's table (`InspectorOfDiff`); a database can be compared with itself
  (`TwoDatabases`). The comparison's lists follow Go's map order, which `editor/service.go:158` calls
  deterministic; the model compares sets.

`MigrationLifecycle` leaves room for what the code allows besides: a job whose rows could not be
counted stays pending, and one that a crash stopped stays pending or running.

## 6. Plan

Every planned proof is done. What is left is a composition of service, pipeline and hub, in which the
abstract results of `MigrationService` (`StreamReturns`, `CloseHub`) are the other modules' steps: each of the
three is checked and proved against what it assumes of the other two, not together with them.

## 7. Not modelled

Projects' own rows, their pages and the dashboard (a list, a creation dialog and a form of the same
shape as the organization's); the structure tab of the studio and the project picker of the diff page;
the five minutes after which a cached query is stale in the studio and the diff page; the schema
transformer (type tables); analytics queries; encryption and mail; delivery of webhooks and writing of
the audit log; HTTP decoding; landing, legal and presentational components. Of Fiber's reuse of request
memory (`migration_handler.go:213`), the reading of pages by OFFSET while the source changes
(`postgres/connection.go:485`), the delimiter in the lock key (`service.go:71`) and updates of tables with
composite keys (`useTableMutations.ts:48`) the models say nothing.
