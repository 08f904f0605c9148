# Formal models of the field-service backend

TLA+ models of the state machines inside `fsm-backend` (an Express/Prisma/Postgres
API with a few background jobs), the TLC configurations that check them on small
instances, and proofs, checked by TLAPS, of the results that should hold for every
instance. Paths below are relative to the repository root (`src/modules/...`,
`prisma/schema.prisma`, `tests/...`).

## 1. The system

One API process (or several replicas) serves HTTP requests; all durable state is in
Postgres, reached through Prisma. Handlers are `async`: **every `await prisma...` is
a point where another request, another replica or a timer may run**, and only a
single statement, or statements inside one `$transaction`, are atomic (transactions
run at Postgres' default READ COMMITTED). Timers in the API process clean up
sessions and geo pings and, when enabled, drain the sync-job table; the daemon
script `scripts/integrations/run-sync-worker.ts` drains the same table from another
process. The components interact almost only through rows:

| component | state it keeps | operations | what is hard | what makes it correct |
|---|---|---|---|---|
| Sync jobs (`jobs/syncJobs.ts`) | `SyncJob` rows: status, attempts, scheduledAt, payload | webhook enqueue, fetch batch, claim, process, complete, fail/retry | several workers, stale batches, lost replies, crashes, retry delays | one run per job at a time, attempt budget, final states final, every accepted event applied |
| QuickBooks connections (`integrations/quickbooks`) | `IntegrationConnection` rows: status, isActive, realmId, state hash | connect URL, OAuth callback, lookup of the active connection | external token exchange between read and write, two callbacks at once | one active connection per organization, a state is used once |
| Sessions (`auth.service.ts`, `requireAuth.ts`, `sessionCleanup.ts`) | `Session` rows: valid, hash of the current refresh token | login, refresh, logout, logout-all, reset password, cleanup, authorisation | read and write of a rotation are two steps, revocations race with both | revocation is final, a refresh token is exchanged once, reuse is noticed |
| Login lockout (`auth.service.ts`) | `LoginAttempt` per e-mail and address | check, record a failure, clear | counter kept by read-then-write | a lock holds for its time, the counter counts |
| Account tokens (`auth.service.ts`) | `VerificationToken`, `PasswordResetToken` | issue, redeem, expire | two redemptions at once | a token is redeemed once, one is outstanding |
| Invoices (`invoices.service.ts`) | `Invoice` status and timestamps, lines, work-order links | create, edit lines and links while DRAFT, change status | check of the status and the write are two steps | edits only on drafts, PAID and VOID final |
| Routes (`routes.service.ts`) | `RouteStop` rows with unique positions | add, reorder, remove stops | positions computed from a read; unique index checked per statement | positions 1..n without gaps, no stop lost |
| Bookings (`bookings.service.ts`, `statuses.service.ts`) | `Booking`, status events, `BookingStatus.isDefault` | create, change crew/status, create/update statuses | defaults cleared and set in transactions that may overlap | one default, the event log leads to the status |
| Service contracts (`serviceContracts.service.ts`, `recurrence.service.ts`) | contract, recurrence rule, `GeneratedOccurrence` rows | create, update, delete, materialize | cursor from the latest occurrence, concurrent materialisation | no duplicate, no gap |
| Work orders (`workOrders.service.ts`) | tasks, incidents, notes, line items | instantiate a template, change task status, readiness | count-then-create | a template is instantiated once, whoever closes the last task learns it |
| Workforce (`crews`, `service-resources`, `skills`, `technicians`) | membership and skill rows | upsert, replace, delete | replacement in transactions, restricted deletes | references stay valid |
| Geo tracking (`geoTracking.service.ts`, `geoPingCleanup.ts`) | devices, pings | register, ingest, clean up | ingest against deletion; retention boundary | what has outlived the retention goes, in spite of errors and restarts |
| Organizations and RBAC | organization slug, memberships, roles, permissions | create with slug retries, ensure system roles, resolve permissions | unique slugs under races | a member's permissions are those of its roles |
| Lifecycle (`index.ts`, `lifecycle`) | shutdown flag, timers, server | signals, close, force exit | double signals, hanging close | cleanup once, the process ends |
| Rate limits (`http/middleware/security.ts`) | connection to Redis, health flag | connect, lose, regain, probe | health read after an await | ready only while the limits are kept |
| Mails (`infrastructure/email`) | none: promises of the process | send, retry | nobody waits, the process may stop | every mail is sent or given up |
| Rows of an organization (all services) | every table with an `orgId`, foreign keys, join tables | create, link, unlink, delete | ids chosen by clients, cascades, scripts on the same tables; some reads go by no organization | no link joins rows of two organizations |
| Lists (all services) | none | one page: count and rows | pages are read while rows change | a row that keeps its place is given once |

Customers, service locations and work templates are rows whose only behaviour is whom
they belong to and what hangs on them; they are modelled together with the other rows
of an organization (`Tenants`). The scripts under `scripts/` and the seed write the
same tables as the services and are actions beside theirs. Routing, request schemas,
OpenAPI, metrics and logging keep no state of the domain. `PROJECT.json` lists every
component with what is modelled of it and what is left out.

## 2. Plan

Order of the modules, the most important behaviour first; all of them are written:

1. `SyncJobs` (the only true queue with concurrent consumers): invariants,
   liveness, proofs; `JobLease`, the abstract specification it implements.
2. `AuthSessions`: rotation, reuse detection, revocation, cleanup.
3. `Invoices`: edits and status changes against each other.
4. `Routes`: numbering of stops under add, remove, reorder.
5. What guards and serves every request, composed in `MCPlatform`: `LoginLockout`,
   `AccountTokens` (with the mails), `Connections` (QuickBooks), `Organizations` (roles
   and permissions), `GeoPings` (retention), `Process` (start, readiness, shutdown).
6. What the field service keeps, composed in `MCDomain`: `Tenants` (rows and foreign
   keys of all services), `Occurrences` (service contracts), `WorkOrderTasks`,
   `Bookings`, `ResourceSkills`, `Paging` (every list endpoint).

Every safety invariant and action property that a passing run checks is also proved for
all constants (section 6). Left: the guarantees of the models under fairness stay with
TLC; what would say more are abstract specifications beside `JobLease`, in this order:

- sessions: a register of valid sessions with create and revoke, which `AuthSessions`
  implements under `row[s] = "valid"` (`NeverRevived` is half of the argument);
- invoices: the status machine of `Allowed`, which `Invoices` implements where requests
  do not overlap (`Stamps` in `InvoicesProofs` is the invariant it needs).

## 3. Modules

Conventions. A handler is cut at every `await`: what one database call (or one
`$transaction`) does is one action, and the request or the worker carries what it
read in variables of its own (`pc`, `batch`, `tries`, `req`, `order`, ...). A check
that refuses a request changes nothing; it is a disabled action or a stutter. A
request may be cut short between two calls (`Abort`, `HookAborts`, `RunAborts`,
`Crash`). Each "Faulty variant" stands before the definition it replaces and keeps its
parameters: with it in place the named property of a run fails, which shows the
property can fail. `PROJECT.json` maps every other definition to its source lines.

### SyncJobs, JobLease (MCSyncJobs, SyncJobsProofs, SyncJobsRefinement)

`src/jobs/syncJobs.ts` and `handleQuickBooksWebhook`. Variables `status`, `event`,
`attempts`, `wait` are the columns of `SyncJob` (`wait` is `scheduledAt` as ticks from
now, capped at `MaxLag` ticks overdue so the clock stays finite); `pc`, `batch`, `cur`,
`tries` are the locals of a run of `processPendingSyncJobs`; `rpc`, `revent` those of a
webhook request; `applied[e]` counts how often `lastSyncAt` was moved for an event.
`Fetch, Claim/Skip, Read, Dedup, Apply, Complete/Fail` follow the calls of a run.
`StepRaises` is a call inside the `try` that raises with or without its effect;
`RunAborts` one outside it (the timer only logs); `Crash` the death of the process.
`JobLease` says what that is for: exclusive leases, at most `MaxRuns` of them, nothing
after done, dead or lost. Left out: `MANUAL` jobs (no code creates them) and the
worker's shutdown flag.

### AuthSessions (MCAuthSessions, AuthSessionsProofs)

login, refresh, logout, logout-all, reset-password, `requireAuth` and the cleanup job.
A refresh token is the number of its issue within a session (`signRefresh` gives each a
random `jti`), so `stored[s] = n` is the comparison with the stored hash. `presented`,
`exchanged` and `since` are history variables. Tokens expire in the order of issue.
The e-mail verification check of login and the tokens of a reset are left to
`AccountTokens`; register creates a session as login does and is left out.

### Invoices (MCInvoices, InvoicesProofs)

All operations of `invoices.service.ts`. `req[r]` is what a request will write once its
check has passed; `overlapped` is a history variable: invoices on which two requests
were in progress at once. Texts and amounts of a line are one value of `Text`.

### Routes (MCRoutes, RoutesProofs)

All operations of `routes.service.ts` and the crew change of `updateBooking`. A route
*is* its crew and date (unique index). `order[r]` is the numbering a reorder or a
removal is about to write; `Refused` is the rule of Postgres for a non-deferrable
unique index inside a sequence of single-row updates, in closed form. `disturbed` is a
history variable: routes on which requests overlapped or one was cut short.

### LoginLockout, AccountTokens, Connections (MCPlatform, PlatformProofs)

`LoginLockout` is the `LoginAttempt` row of one pair of e-mail and address (no call
touches two). A login reads the row, drops it when it is stale, verifies the password,
and records a failure (`ReadAttempt`, `WriteAttempt`: a read and a write of absolute
values) or deletes the row. `early` holds the logins that were past the check when the
present lock was set; `recent` and `alone` are history variables. Time is `clock`; the
window and the lock are compared as the code does, with `>` in the check and `<=` in
the record.

`AccountTokens` numbers verification and reset tokens in the order of issue. A request
looks the token or account up, and a transaction then marks what it sees unused as used
and writes its own rows; `unused` is what that transaction saw. `mail[t]` counts the
calls of `sendMail` left to `withRetry`, `delivered` whether the user got one: only then
can the token be presented. Mails live in a promise of the process (`ProcessStops`
forgets them).

`Connections` is one organization's `IntegrationConnection` rows. A callback looks its
state up, exchanges the code at the provider (a step that may fail), and runs a
transaction in two steps: `CallbackBegin` reads the row of the same realm and the active
rows (`twin`, `others`), `CallbackCommit` writes, or is refused by the unique index.

### Organizations (MCPlatform, PlatformProofs)

`createOrganization` with its slug retries as attempts of a request; `label` is
`OrgMember.role`, `held`, `roles`, `grants`, `catalog` the tables permissions are
resolved from; `userRole` the global role. The scripts `backfill-legacy-org`, `set-role`
and `bootstrap-first-admin` and `seedRbac` of the seed are actions on the same tables;
the backfill may stop between organization and members, the seeding anywhere
(`SeedStops`). `MayRun` is `resolveOrgContext` followed by
`requirePermission`.

### GeoPings, Process (MCPlatform, PlatformProofs)

`GeoPings`: clients ingest batches with times of their own (`IngestGeoPings`), the timer
starts a cleanup unless one runs, which deletes organization by organization against one
reference day; a failing call ends it, the process may stop anywhere and be restarted.

`Process` goes from the environment (`Env`: every combination the configuration tells
apart) through `GetConfig` and `RegisterSecurity` (Redis, then listening) to `OnSignal`,
`OnFatal`, the steps of the shutdown and the forced exit. `redisLink` is the truth about
the connection, `redisHealth` what `/ready` believes; a probe awaits the database
between its start and its answer.

### Tenants (MCDomain, TenantsProofs)

The rows of all services (`rows`, one of each kind and organization is enough to mix
two organizations up) and their foreign keys and join tables (`refs`). One step stands
for a whole handler, its look-ups included. Cutting it would add nothing: the
organization of a row never changes while the API serves, the look-ups establish only
that and the existence of the row, and the database refuses a link to a row that has
gone. Deletes follow `onDelete` in `prisma/schema.prisma` (`Cascade`, `Restrict`).
The seed and the backfills, which move rows from no organization to the legacy one, are
actions too.

`Answers(o)` is what a member of the organization `o` can be shown: the row that was
asked for and the rows it links to, which no query filters by organization. The reads
that go by the organization of the caller are `ScopedAnswers(o)`. The others are
`UnscopedAnswers`: `getWorkOrderDetail` and `getCustomerDetails`, which are
`findUnique { id }`, and `listCustomers`, `listWorkOrders` (`CustomersListed`,
`WorkOrdersListed`; `Paging` has the walk through the lists) and `listTechnicians`,
which have no condition on `orgId`. They do not depend on `o`: every caller is shown the
rows of all organizations. `OneOrganization` says what holds of either kind; it does
not say that a caller is shown rows of its own organization only, which is false for
the second kind from the first state on (section 5).

### Occurrences, WorkOrderTasks, Bookings, ResourceSkills, Paging (MCDomain, DomainProofs)

`Occurrences`: a materialisation is three steps (rule, latest stored occurrence, insert
with `skipDuplicates`). `GenerateNextOccurrences` is the loop of the generator over the
instants of a rule (`Dates`), a recursive function; the rrule library is external.

`WorkOrderTasks`: instantiating a template is count, read, insert; a status change writes
and then reads whether tasks are pending. `versions`, `batches` and `answer` are history
variables. `UpdateTemplate` replaces the template's tasks in a transaction.

`Bookings`: making a status the default clears the defaults it sees and then sets its
own (`ClearDefaults`, `MakeDefault`); a status change reads the booking, resolves the
new status, compares, and writes status and event in a transaction. `apart` is a history
variable.

`ResourceSkills`: a replacement checks the list, deletes the rows it sees and inserts
the list (`skipDuplicates`); `single` and `asked` are history variables.

`Paging`: every list handler is a count and a `findMany` with skip and take which run at
once; `distinct` tells whether the sort column is unique, as for skills, crews and
templates, or not. `given` counts what a client that walks the pages has received,
`steady` holds the rows for which that is promised to be once.

### MCDomain, MCPlatform

The modules composed here share no state: each abstracts from what the others do to
its rows. An interleaving of two would show nothing the steps of each do not, so a
behaviour exercises one of them, told by `part`, and the others keep one initial state.
The state spaces add up and do not multiply. Where components do interact through rows,
one module holds both sides: webhook and worker (`SyncJobs`), sessions and their cleanup
(`AuthSessions`), bookings and route stops (`Routes`), services and scripts (`Tenants`,
`Organizations`), templates and tasks (`WorkOrderTasks`).

## 4. Runs

| run | instance | what it shows |
|---|---|---|
| `sync_safety` | 2 workers, 2 receivers, 2 events, 3 rows, batch 2, 2 attempts, 2 faults, 1 crash | `NoJobRunTwiceAtOnce`, `AttemptsBudget`, `CompletedMeansApplied`, `SettledForGood` |
| `sync_live` | 2 fair workers, 2 receivers, 1 event, 2 rows, 2 faults, 1 crash, clock | `SettlesOrOrphaned`; `AcceptedIsApplied`: every accepted event is applied unless a job of it failed or was orphaned; `JobLease` is implemented |
| `sync_earlyretry` | 2 workers, 1 job, 1 fault | **violated**: a retry delay is skipped by a worker holding the job in an old batch |
| `auth_races` | 2 requests, 2 sessions, 2 tokens each, 1 reset | `RevokedForGood`: no step brings a revoked session back, whatever a rotation in flight has read |
| `auth_live` | 2 requests, 1 session, 4 tokens, 1 reset, fair cleanup timer | `ReuseOnlyAfterReplay`: revoked for reuse only after a token was presented twice; `DeadSessionsDeleted` |
| `auth_twice` | 2 requests, 1 session | **violated**: two overlapping refreshes exchange one token twice |
| `invoice_edits` | 2 requests, 2 invoices, 2 customers with a work order each, 1 line | `LinksOfCustomer`, `StampsTellHistory`; `FrozenAfterDraft` where requests did not overlap |
| `route_stops` | 2 requests, 2 crews, 3 bookings, 3 stop ids | `GapFree`, `OrderKept` where nothing overlapped or failed; `CrewsMatch` unless the booking was moved |
| `route_reorder` | 1 request, 1 crew, 3 stops | **violated**: a permutation is refused by the unique index |
| `domain` | see below | `OneOrganization`, `NoGapAhead`, `TasksAreCopies`, `LastAnswerTells`, `DefaultsOverlap`, `LogFollowsBooking`, `SkillsAsAsked`, `WalkComplete` |
| `platform` | see below | `LocksWhenDue`, `LockHolds`, `TokensOverlap`, `OneActive`, `RanksHold`, `ExitTells`, `ReadyTells` |
| `platform_live` | 2 tokens, 2 organizations with pings, all environments | `MailSettles`, `OldPingsGo`, `ShutdownEnds` |

Each safety run checks the type invariant of its modules too; the comment before a
property says it in full.

Bounds. Two workers (requests) are what every pairwise race needs; three rows with a
batch of two give a stale second candidate, a duplicate and a bystander. Two attempts
cover "retry" and "give up". Two faults and a crash let a lost reply and a failing
`markFailed` meet in one run of a job. The four tokens of `auth_live` allow three
rotations, so both orders of two stale requests around a rotation occur; `auth_races` has
one rotation per session, but two sessions for a reset or a logout of all to revoke. Three stops are the least with a middle one.

`domain`: two organizations, one of them the legacy one, and at most two created rows
beside the given ones: a link has two ends, and a wrong one needs a row on each side.
Each organization has a customer, a location, a technician and a work order, linked, from
the start, so the reads that go by no organization find rows of both.
Seven instants, counts up to three and a rule that changes once let a batch end before,
at and after the stored occurrences, with rules that start late, end early or step by
two. Two incidents, two titles, one replacement of the template: two versions to mix up.
Three statuses and two requests: a third default would be one more than overlap explains.
A log of two changes has neighbours to compare. Three skills: one kept, one removed, one
added. Three items on pages of one, with three keys: an item can be before, between and
after the pages, and two can be equal.

`platform`: two logins, three attempts, a window of 2 ticks and a lock of 3 on a clock
of 8: a lock can be reached, outlived and reached again, and the counter can expire
halfway. Three tokens of one account and two requests: two unused tokens is what overlap
explains, a third would be seen. Three connections, three realms and two callbacks
likewise. Two users, two slugs with two suffixes each (one the legacy one), two
organizations: a slug is taken, retried and exhausted. Retention of two days, or the
minimum of one, on days 0 to 3. Nothing of `Process` is bounded. In each of the two runs
every part is explored from every one of its initial states.

Symmetry is used for safety and action properties only, never where a liveness property
is checked. What the bounds taught: `OrderKept` of `Routes` without its "undisturbed"
premise holds for two requests and three stop ids and fails for three and four (a
removal renumbers around a stop inserted at a position freed meanwhile), so it is stated
with the premise.

Fairness. `SyncJobs`: weak fairness of each worker's next call (`setInterval` starts
runs for ever, Node resolves every promise), of a webhook request's insert and of the
clock; none for faults and crashes. `AuthSessions`: weak fairness of the cleanup timer
only. `MCPlatform`: weak fairness of `SendMail` for each token (the promise goes on by
itself until it is settled); strong fairness of `CleanupStart` and of `CleanupOrg` for
each organization (the timer goes on firing, and errors and stops, though they may come
again and again, do not for ever come before an organization's turn); weak fairness of
`GeoRestart` (the supervisor) and of `ForceExit` (a timer of the process). Nothing is
assumed of `server.close`, of leaving Redis and of disconnecting the database: they may
hang, which is what the forced exit is for. Safety runs use `Spec` without fairness.
Deadlock is checked in every run: a refused request, a tick or a new request is always
possible.

## 5. Findings

- A retry may come before its delay (`sync_earlyretry`): the claim re-checks
  `status`, not `scheduledAt`.
- A refresh token can be exchanged twice by overlapping requests (`auth_twice`).
- Reordering stops cannot succeed on a gap-free route (`route_reorder`).

Seen while modelling. The code, its docs and its tests promise nothing else here, so
these are premises or bounds of properties and no findings; what a property promises
where requests do not overlap is kept strict.

- Invoices: edits and status changes that overlap land after the issuing or bring a PAID
  or VOID invoice back (`overlapped`).
- Sessions: a login that overlaps a password reset leaves a session of the old password;
  a rotation in flight writes a hash onto a session a logout has revoked, which stays
  revoked (`RevokedForGood`).
- Routes and bookings: `updateBooking` leaves a stop on the route of a crew that no
  longer has the booking (`moved`). Two overlapping changes log the same status twice
  (`apart`), two overlapping defaults leave two (`DefaultsOverlap`).
- Sync jobs: a run cut short leaves its job PROCESSING for ever, and the webhook then
  swallows redeliveries (`Orphan`).
- Tokens and connections: two redemptions that overlap both succeed (`TokensOverlap`),
  two callbacks that overlap leave two connections active (`OneActive`); a later look-up
  never adds to that.
- Tasks: two requests that overlap instantiate a template twice (`TasksAreCopies`).
- Skills: two replacements that overlap leave the union of the lists, until the next
  replacement (`SkillsAsAsked`).
- Occurrences: a rule that changes leaves the occurrences of the old one, and the next
  ones follow the latest of them (`changes = 0` in `NoGapAhead`).
- Reads across organizations: `getWorkOrderDetail` (`workOrders.service.ts:200`) and
  `getCustomerDetails` (`customers.service.ts:79`) look up by id alone, and
  `listCustomers`, `listWorkOrders` and `listTechnicians` filter by no organization. So a
  member of one organization is shown customers, locations, technicians, work orders,
  notes and line items of all others. The routes ask for a login, and those of customers
  for a permission in the caller's own organization, not in that of the row. No doc,
  comment or test promises that reads are kept apart (`README.md:95` speaks of a
  multi-tenant foundation, `src/openapi/tags.ts:30` of tenants, neither of reads), so it
  is no finding with a run; `OneOrganization` lists in `Exposed` the kinds of rows that
  are shown this way, and claims no more.
- Lists: a page may repeat or miss a row for a change before it, or when the sort column
  has equal values (`steady`).
- `backfill-bookings` sets the status of a booking anew on every run without an event;
  it is listed as a hazard without a property.

## 6. Proofs

`SyncJobsProofs` proves, for all constants satisfying the named assumptions
(`BoundsAssumption`, `ConfigAssumption`, `NullAssumption`), that `Inductive` is an
invariant, and from it `TypeOK`, `NoJobRunTwiceAtOnce`, `AttemptsBudget`,
`CompletedMeansApplied` and the action property `SettledForGood`. The safety properties
are not inductive alone: that two workers never hold one job needs that a held row is
PROCESSING (so the conditional claim cannot match it), the attempt budget needs that a
run remembers the attempts of its row as they are, completion needs that a run about to
complete has seen its event applied; `HeldRows`, `Rows` and `Requests` say so, with the
one exception that a row may be COMPLETED while its run is about to `Fail` (a lost
reply). `NextInductive` has a step for each action, and one for each conjunct it can
disturb.

`SyncJobsRefinement` proves `LeaseImplemented`: under `HolderOf` (the worker that holds
the job) and `PhaseOf` (running while held, whatever the row says) every step of
`SyncJobs` is a step of `JobLease` or a stutter. `Views` turns the inductive invariant
into what the mapping needs, `ClaimLeases`, `RunEnds` and `NoRunNoChange` treat the three
kinds of step.

The other components are proved the same way: an inductive invariant (checked by TLC on
the instance of the run before it was proved), a lemma for each action, and the theorems
from it. What each safety property lacks to be inductive, and what supplies it:

- **`AuthSessionsProofs`**. `RevokedForGood` needs that a rotation in progress is about a
  row there is (`Requests`). That reuse is reported only after a replay needs `Chain`: as
  long as no token of a valid session was sent twice, the stored token is the newest, all
  older ones have been sent, and the one rotation in progress holds the newest.
- **`InvoicesProofs`**. A request goes by an old check. `Checked` says what no overlap can
  take from it (the customer of an invoice never changes, ISSUED stays in the timestamps)
  and what it keeps where nothing overlapped; `Overlaps` makes two requests on one invoice
  imply the mark; `Stamps` relates timestamps, status and mark.
- **`RoutesProofs`**. `GapFree` speaks of a route at rest; `Settled` says for a route in
  the middle of a request that positions are distinct, how far they reach, and that what
  the request holds (the last position, a numbering, the order) is still true. Its core
  are the counting lemmas `OntoInterval` and its kind: an injective numbering of n stops
  below n + 1 leaves no gap. `Bounded` keeps positions below the number of stops ever
  added, which is what types them. `StopAssumption`: the pool of stop ids is finite.
- **`TenantsProofs`**. `Links`: every foreign key and join row has both ends in one
  organization. Each handler's look-ups establish it for what it writes; the scripts,
  which move rows, move what hangs on them along. `ScopedAnswersAreOwn` carries it over
  to the reads that go by the caller's organization, `UnscopedAnswersAreOne` to the
  reads that do not: what those show together belongs to one organization, the row's and
  not the caller's, and only to kinds in `Exposed`. Nothing proved says that an
  organization is shown only its own rows.
- **`DomainProofs`**. Skills: a replacement still single has deleted every row there is
  (`SingleSawAll`). Tasks: `InsertsBounded` counts for every incident the inserts done and
  the requests that may still insert; `TaskChanged` makes an answer speak of tasks there
  are. Bookings: `DefaultsMade` is an injection from defaults to the requests that made
  them, possible since a request about to make another one has seen its own. Occurrences:
  `BatchesFit`, what a materialisation is about to insert leaves no gap behind what is
  stored. Paging: `SteadyGiven` relates the rank of a row that keeps its place to the
  pages read; the lemma `FirstFacts` says that a row alone with its key is among the first
  n of any order exactly when fewer than n rows come before it.
- **`PlatformProofs`**. Process: `ProcConsistent`, above all that `ready` means connected
  while the server serves, and that a fatal error has set the code. Organizations:
  `FoundersOwn` and `GrantsOfRoles`, kept through seedings that stop halfway. Connections
  and tokens: injections from active rows (unused tokens) to the requests that made them
  (`ActiveMade`, `TokensMade`), and sums of what was done and what is still to come
  (`Activations`, `Redemptions`). Lockout: `RowTells` reads the row as the length of the
  present run of failures (`Runs`), a due lock, or nothing that counts; `Computed` says
  that a login alone writes what follows from the present row, `LockSeen` that whoever is
  in progress under a lock was so when it was set. `RunGrows` and `RunStarts` are the
  arithmetic: `>` in the check and `<=` in the record split the same boundary. Geo pings:
  `GeoTyped`, and `YoungPingsStay`: the cleanup deletes nothing that has not outlived its
  retention, because the day it compares with is never ahead of today.

A run that composes services implements the specification of each one (`ServicesStep`,
`PlatformStep`: a step of the whole is a step of each or leaves it alone), so the results
hold there too: `ServicesTyped`, `ServicesSafe`, `PlatformTyped`, `PlatformSafe`.

One result looks like induction over data and is not: that `GenerateNextOccurrences`
leaves no gap for any count. The loop is a recursive function on the naturals; `StepsExist`
shows that a function with these steps exists (were there a least length without one, the
one below it could be extended), and `GeneratedWithoutGap` takes the least step that would
leave a date out. Both rest on `LeastElement`, which is proved from finiteness.

Assumptions are the named ones of the modules. They say that bounds and limits are
naturals (not zero where the configuration's validation refuses zero), that null values
are none of the others, that sets of requests, callbacks and rows in one execution are
finite where they are counted (`TasksAssumption`, `BookingsAssumption`,
`PagingAssumption`, `AccountAssumption`, `ConnectionsAssumption`, `StopAssumption`), and
that there is at least one user or incident where a model picks one. TLC evaluates each in
the runs.

Only model-checked: liveness (`AcceptedIsApplied`, `SettlesOrOrphaned`,
`DeadSessionsDeleted`, `MailSettles`, `OldPingsGo`, `ShutdownEnds`): fairness and ENABLED
are outside TLAPS. The three properties that are violated are refuted by their runs.

## 7. Not modelled

- OpenAPI (`src/openapi`, a quarter of the lines): documentation as data.
- Controllers, DTOs, request schemas and error mapping: they parse and refuse; a refused
  request is no step. Logging, metrics and health formatting.
- The counters of the rate limits: they live in express-rate-limit and Redis. The
  connection to Redis and its health are in `Process`.
- SMTP, texts of mails and the console fallback.
- Fields no property tells apart: names, notes, schedules, prices, coordinates, and the
  updates that change only them (text and price of a line item, invoice memo).
- The seed's users and booking statuses, requirements and route stops of
  `backfill-bookings`, the two reads of geo pings, the look-up of the active QuickBooks
  connection outside the webhook, parsing of single environment variables.

Postgres is assumed to give atomic statements and transactions at READ COMMITTED; Redis,
SMTP and the QuickBooks API are external and modelled from how the code uses them.
