# WorkforcePulse: formal models

TLA+ models of the WorkforcePulse backend (NestJS services over PostgreSQL and Redis, a
Next.js front end), the TLC runs that check them, and proofs that TLAPS checks.
`PROJECT.json` maps every definition to the lines it models and lists the hazards, the
findings and the theorems.

## The system

| Component | State | Operations | Talks to |
|---|---|---|---|
| leave service | `leave_types`, `leave_balances`, `leave_requests`, `leave_approvals`, `outbox_events`, `audit_logs` | submit, approve, reject, verify, balances (seeds rows), two queries | gateway by RPC; relay and Debezium read its outbox |
| payroll service | `payroll_runs`, `pay_slips`, `pay_slip_items`, outbox, audit | executePayrollRun, three queries | gateway; Redis lock; reads employees, compensations, leave requests |
| Redis lock | one key per tenant and period | `SET .. EX 300 NX`, `DEL` | payroll |
| outbox relay | `isProcessing`, `processed`, `retryCount` | poll every two seconds, send, acknowledge or count a failure | outbox tables, notification service |
| notification service | none | process an event (RPC, or a Kafka CDC message) | relay, Debezium |
| auth service | tenants, employees, roles, refresh tokens, compensations | register tenant, onboard, login, refresh, validate | gateway |
| gateway and guards | none | one RPC per route; body, JWT, tenant and permission checks | all services |
| web session | tokens in a store, in localStorage and in cookies; `isRefreshing`, `failedQueue` | request, refresh on 401, login, logout, reload | gateway |
| web pages | React state of the leave board, the directory and the payroll console; role and profile in the store | forms, dialogs, decisions, timers, navigation, role switch | sample data only; they share the session |

Where it is hard:

- Handlers are async functions over a pool of connections: between two awaits other calls
  run, in this process or another. Guards read entities *outside* the transaction that
  writes them. No row is locked by a read, none has a version column, and the invariants of
  the data (one balance row per type, one run per period) have no unique constraint.
- The payroll lock is a key with a constant value and a time to live: who set it is not
  known, it can expire under a running call, and its release can fail or come late.
- Registration, onboarding and token rotation write several rows with no transaction.
- The relay delivers at least once at best, and gives up after three failures.
- In the browser any number of requests get their 401 in any order; a reload, a sign-out or a
  lost answer leaves a call running at the service; a page is left while its timer is pending,
  and a dialog stays mounted with what it held for the request before.

What makes each component correct: the leave service keeps the ledger of days, the state
machine and the history of a request in step; payroll pays a period once and says what it
paid; the lock excludes and is never stuck; the relay delivers each event or keeps it; a
session is lost only by an expiry, a sign-out or a failure in the middle of a rotation; a tab
refreshes once at a time and forgets no request; a tenant has one administrator, or is lost;
a page says what its state is.

The schemas. Each service calls `DatabaseModule.forRoot` with a schema of its own and
synchronizes its own copy of the tables, foreign keys included; `register-debezium.sh` reads
the outboxes of those schemas. No code copies tenants, employees or compensations into the
schemas `leave` and `payroll`. `LeaveWorkflow` therefore takes the rows its foreign keys need
as given, and `PayrollRun` has the constant `SharedSchema`: FALSE is the repository as it is,
where no run ever finds an employee (run `payroll_own_schema`); TRUE is a deployment over one
schema, the only one in which the rest of the handler is reached by the code of `src/`.

## Modules

**LeaveWorkflow** models `leave-service.service.ts` for one employee and one year. A handler
is a slot; `calls[h]` is the call in progress with the entities it has in memory. A call is
split where the code awaits and another call can matter:

| Code | Actions |
|---|---|
| submitLeaveRequest | `SubmitLeaveRequest`, or `SubmitWithoutBalance` and `CreateBalance`; `SelectBalance`; `CommitSubmit` |
| approveLeaveRequest | `ApproveLeaveRequest`; `SelectRequest`; `CommitDecision` |
| rejectLeaveRequest, verifyLeaveRequest | `RejectLeaveRequest` or `VerifyLeaveRequest`; `FindBalance`; `SelectBalance`; `SelectRequest`; `CommitDecision` |
| getEmployeeLeaveBalances | `GetEmployeeLeaveBalances`; `SeedBalances` |
| an exception, a lost connection, a crash | `Abort` |

TypeORM's `save()` of a loaded entity is a SELECT and an UPDATE of the columns that differ:
that is what makes a stale save overwrite, or write nothing, and it is modelled as such
(`DirtyBalance`, `DirtyRequest`). Transactions are READ COMMITTED; a row an open transaction
has updated makes the UPDATE of another wait (`RowLocked`). A call refused by a guard has no
effect and is not a step. The days of a request are a number; dates, names and comments are
left out.

**PayrollRun** models `executePayrollRun` for one tenant and period, with the lock of
`redis.service.ts`. `pc[h]` follows a call from the SET to the DEL; each read before or in
the transaction is an action, one per employee for the slips, and the writes appear at
`CommitRun`. `AbortRun` is any exception (the finally block still runs), `Crash` the death of
the process (it does not). The environment is in the module: employees are onboarded and
their compensation saved later by the auth service, and leave-service decisions read a leave
and write it later. Amounts are left out; a slip records whether its gross pay comes from a
compensation row or from the default.

**PayrollPeriod** is the abstract specification of payroll: a period is paid at most once, in
one step that writes one slip for each paid employee and locks leaves of the period and no
others. `PayrollRun` instantiates it with the union of the completed runs' slips for
`slips`, and `ImplementsPeriod` is the refinement.

**OutboxRelay** models `outbox-relay.service.ts`: the processes that poll one schema's
`outbox_events`. `polls[r]` is the poll in progress with the entities it loaded;
`isProcessing` is `polls[r] # None`. The loop is at the oldest entity left (`At`).

| Code | Actions |
|---|---|
| the interval's tick and the find | `HandleOutboxPolling` |
| send, the handler in the notification service, the answer | `Send`, `ProcessOutboxEvent`, `Acknowledge` |
| the catch: a lost answer, a closed connection, an error | `Fail`; a request may outlive its connection (`late`, `ProcessLate`) |
| the two saves, each a SELECT and an UPDATE | `SelectRow`, `SaveRow` |
| the first save throws, applied or not; its catch counts a failure on an acknowledged entity | `AcknowledgeFails` |
| the save in the catch throws, or the process dies | `Stop` |
| a service's transaction commits an event | `InsertEvent` |

Transactions commit in any order, whatever their `createdAt`. The leave and payroll modules
keep the outbox as a history of each request or run; here its rows are what the relay sees of
them. **EventDelivery** is the abstract specification: an event is sent only while it is
pending, acknowledged only when handled, and settled once.

**RefreshTokens** models `loginUser` and `refreshToken` for one employee: the rows of
`refresh_tokens`, and the calls that find, revoke and store them one statement at a time, with
no transaction (`RefreshToken`, `RevokeToken`, `StoreRotated`, `StoreLogin`, `Fail`). bcrypt
compares the first 72 bytes of a token only, and the tokens of one employee agree in them: any
unrevoked row matches (`Matches`). **Gateway** has no state: the routes, the fields of their
bodies, the permissions they ask for and the status a request is answered (`Status`).
**WebSession** composes both with one browser tab: the interceptors of `api-client.ts`,
`useAuthStore` and localStorage, `AuthGuard`, the login form, sign-out and reload.

| Code | Actions |
|---|---|
| request interceptor; the answer by the gateway | `Send`; `AnswerRequest`, `NetworkError` |
| response interceptor on a 401 | `Enqueue`, `StartRefresh`, `SignOutUnrefreshed`, `RejectRetried` |
| the rest of the try, the catch, the finally | `FinishRefresh`, `FailRefresh` |
| login page | `SubmitLogin`, `FinishLogin`, `FailLogin` |
| AuthGuard, sign-out button, a reload | `Hydrate`, `RedirectToLogin`, `HandleLogout`, `Reload` |
| the service's statements, expiry | `AuthStep`, `AuthFails`, `ExpireToken`; `DropAnswer`: nobody waits for the answer |

**Provisioning** models `registerTenant` and `onboardEmployee` save by save: the unique columns
refuse the second of two inserts, and what a failed call saved stays. The gateway's decision
who may onboard, the login that reads a caller's roles and the registration form are in it. The
tenant of an onboarding is the one its `x-tenant-id` header names, any tenant there is, and the
one of the caller's token only without a header (`OnboardEmployee`): the code compares neither
with the other.

**Workspace** composes the dashboard's three working pages under one layout: **LeaveStudio**
(the board, the application and decision dialogs, the balance meters), **EmployeeDirectory**
(the filter, the onboarding form, the drawer) and **PayrollConsole** (the period, the run with
its `setTimeout` and lock indicator, the payslip dialog). They share the constants of
**WebPage**. Leaving a page discards its state, its timers go on. The pages call no API: their
state is their own.

The theorems are in **LeaveWorkflow_proofs**, **LeaveSerial_proofs**, **PayrollRun_proofs**,
**OutboxRelay_proofs**, **WebSession_proofs**, **Provisioning_proofs** and
**Workspace_proofs**; **Sums_proofs** has the lemmas about sums that the leave service and the
leave board need. `MCLeaveWorkflow`, `MCWebSession` and `MCWorkspace` give constants their
values and state the symmetry for TLC.

## What the runs check

| Run | Configuration | Shows |
|---|---|---|
| leave_concurrent | two overlapping calls, two requests, two balance rows, one leave type of 3 days | whatever overlaps: no verification without an earlier approval, every status written by a committed decision and SUBMITTED never resurrected, events and approval rows in step, used days never overstated |
| leave_serial | one call at a time with aborts, three requests, two leave types | the ledger: one row per type, the allocation respected, `usedDays` and `pendingDays` equal to what the history says, the status moves only along the guards |
| payroll_run | three triggers, two employees, one leave in the period and one out of it; calls fit the lock, no DEL twice, one schema | mutual exclusion, one run per period, the lock always freed, refinement of PayrollPeriod |
| payroll_unlocked | two triggers; the lock expires at any time and a DEL may be applied twice | a completed run still announces, in one event, the number of employees it paid |
| outbox_relay | one relay, three events, batches of two, two failures | only what was notified is acknowledged; refinement of EventDelivery; the outbox is drained again and again |
| web_session | two requests and a login, two rows, two routes, a line manager, development mode | one refresh at a time, no request left in the queue of a refresh that ended, store and localStorage agree, a signed-out tab is signed in by a login only and never by what a late refresh left, a rotation revokes before it stores, the session keeps a row, and a good token is accepted, unless a rotation failed half way |
| provisioning | two domains, two people, two calls of which the form makes one | the audit log names only what is complete, nobody is staff and administrator at once however calls for one email overlap, no staff without an administrator somewhere, one administrator per tenant, a half-registered domain is lost for ever |
| workspace | one sample application and two new ones, two dates, three departments, two hires, two periods, a line manager who is an employee too | each card shows the days that the dialog announced and the meters count each application once, positions fit departments, a run shown as processing has its own timer and completes, a chosen decision is one that was offered |
| leave_rejected_final, payroll_double_run, payroll_own_schema, web_queue_stuck | one assumption dropped, or liveness asked | statements of the documents that the code does not keep (see Findings) |

Bounds. Two calls are enough for every race in the leave service, where a conflict is
between one call's read and one other call's commit; the proofs cover any number. Two balance
rows allow the duplicate row. The allocation of 3 with requests of 1 and 2 days lets two
requests fill it and a third fail. `MaxDecisions` bounds how many decisions start on a
request: 2 with overlap (so a history of three is reached), 4 when serial. Three triggers let
one hold the lock, one be refused and one follow a crash; two employees let one be onboarded
while the other is paid. Handlers, requests, rows and leave types are symmetric in the leave
runs, which check no liveness; the payroll runs use no symmetry.

One relay with three events and batches of two makes the find leave one behind; two failures
instead of three keep the run small (a first failure is retried, a second is final). One late
request of an event is kept: another changes nothing that a property sees.

Two requests let one refresh while the other waits, or is answered late; the login is a third
call of the service. `MaxRow` bounds the rows ever stored: two let a session be rotated once,
or a second login follow the first; the proof has no bound. The requests are symmetric
(`web_session` checks no liveness). `ForbidNonWhitelisted` is FALSE in the runs of the session:
with the pipe of `main.ts` no login of the form is accepted (see below), and a session cannot
begin. Provisioning has TRUE, as `main.ts` has. Two people and two domains let two calls
compete for a domain, an email and a role. In Workspace one sample application stands for the four of the page; two dates make
ranges of one and two days and an inverted one; a filter can select a department that only a
new hire is in.

Fairness. `PayrollRun`!`FairSpec`: an awaited call of a live process returns (weak fairness
of a call's own next step) and Redis expires keys (weak fairness of `ExpireLock`). Nothing is
assumed of triggers, failures, decisions or onboarding. It is used for `LockEventuallyFree`.
`OutboxRelay`!`FairSpec` assumes strong fairness of each statement of a poll: failures and
crashes come as often as they like, but not at the same statement every time. Part of it is
that every send is answered or its connection closes: `firstValueFrom(send(..))` has no
timeout, and without this a poll, and with it the relay, may wait for ever.
`WebSession`!`FairSpec` assumes that the gateway answers, that the service's next statement
runs and that an ended refresh reaches the tab: all the fairness there is, and a queued request
still waits for ever (`web_queue_stuck`). `Workspace`!`FairSpec` assumes that a timer that
was set fires, as the browser's event loop does; it is used for `PayrollSettles`.

`leave_serial` says more than its name: aborts between any two statements are included, so it
is also the atomicity check of the transactions. `LedgerMatchesHistory` is stated with its
exception: after a verified request is rejected, `pendingDays` may be too small.

`DecidedAsOffered` asks for the offered outcome only when an option was chosen: the dialog keeps
the decision of the request before, and confirming without a choice sends it. Without a choice it
only asks that the request was open: a rejected or locked one never moves.

The hazards without a property in PROJECT.json are those whose bad outcome is what the code does
(two overlapping submissions, a decision that overlaps a payroll run, a header that names another
tenant) or lies outside the models; each has its note. `NeverOverAllocated`, `OneRowPerType`,
`StatusFollowsGuards` and `LedgerMatchesHistory` are checked with one call at a time and say
nothing of overlap.

## Findings

Each is a run that TLC ends with a counterexample:

1. A rejected request does not stay rejected: `approve` and `verify` guard an entity read
   outside their transaction (`leave_rejected_final`, `lld.md:87`).
2. A run that outlives its lock is joined by another and the period is paid twice
   (`payroll_double_run`, `requirements.md:34`).
3. With a schema per service payroll sees no employee (`payroll_own_schema`,
   `requirements.md:31`).
4. A 401 that finds no refresh token leaves `isRefreshing` set, and every later 401 of the tab
   waits in `failedQueue` for ever (`web_queue_stuck`, `docs/frontend/requirements.md:27`).

Dropping one hypothesis of a passing run shows more; no run is kept for these:

- in the configuration of `leave_concurrent`, two overlapping submissions are accepted on the same
  available days (`NeverOverAllocated`), and two first calls insert two rows (`OneRowPerType`);
- a verified request can be rejected, which the state machine of `lld.md:81-88` has no arrow
  for: `StatusFollowsGuards` adds that step to it;
- over one schema, a decision that overlaps a payroll run takes a leave out of PAYROLL_LOCKED;
- with two relays on one outbox, a failure saved by one takes an event back that the other
  acknowledged, and it is sent again;
- an event that fails three times is never tried again. `sprint_plan.md:126` asks for zero event
  loss and line 135 for up to three retries; the code follows the latter.

What the web client and the gateway do, met while modelling and translated as it is:

- the login form sends `tenantId`, which `LoginUserDto` has not and the pipe of `main.ts` forbids;
- `loginUser` signs a token without permissions (`hld.md:160` has them), and `JwtStrategy` leaves
  `sub` out of the user it returns, so routes for one's own record ask for employee `undefined`;
- `TenantGuard` takes the tenant from the `x-tenant-id` header before the claim and compares the
  two nowhere, so an administrator may onboard into any tenant, one without an administrator
  included. `requirements.md:15` (FR-1.2) asks to "enforce `x-tenant-id` header validation to
  isolate multi-tenant data", and line 50 (NFR-2.2) for strict isolation. The models of the leave
  and payroll services take the tenant as given;
- the rotated refresh token is not stored: the tab presents the first one until it expires.
  It is accepted, although its own row is revoked, as long as some row of the employee is not,
  because bcrypt sees 72 bytes. `hld.md:161` speaks of "revocation support" and the service's
  own message (`auth-service.service.ts:331`) says "has been revoked or expired".
  `GoodTokenAccepted` states what this leaves a session to rely on;
- the find returns the unrevoked rows in no order, all of them match, and the first is taken: if
  that one has expired (another login left it), a good token is refused (`RevokeToken`);
- a refresh answered after a sign-out writes its access token into the signed-out store, or over
  the one of a session that began meanwhile. Nobody is signed in by it (`SignedOutStaysOut`), but
  later requests of the tab carry it;
- a sample request of the leave board says 5 days for 20 to 25 September, and another for 10 to 15
  August, where the page would count 6: `PendingMatchesRequests` is about submitted requests;
- a user read from localStorage has no roles, and then every role may be chosen;
- a decision, and its comment, stay in the dialog for the next request: APPROVE sent for an
  HR_VERIFIED request moves it back; a REJECTED request is in no column of the board;
- the lock indicator shows the key of the period selected now, not of the run in progress;
  payslips are not filtered by period; nobody listens to the event of the header's quick
  action; Escape closes every open dialog.

## What is proved

For all values of the constants that satisfy the named assumptions, and with no bound but
those constants (any number of calls, requests, rows, employees, tenants, pages' entries):

- **Leave** (`InvariantHolds`): `IInv` is type correctness, the three history invariants and
  `CallsBacked`. The history invariants are not inductive alone: a commit relies on what its
  call read long before. `CallsBacked` records what stays true of it: a request once
  approved has an APPROVED row for ever, a row once found is never deleted, an unused id stays
  its submission's, and a save that found the status already changed does not leave SUBMITTED
  behind. The lemmas show that each step of a call establishes this, that commits of others
  keep it (`BackedPersists`), and that the two commits, given it, keep the histories. From it
  follow `TypeCorrect`, `CallsStayBacked`, `ApprovalBeforeVerification`, `StatusHasDecision`
  and `OutboxComplete`.
- **Sums** (`Sums_proofs`): days are added with `SumFunction` of the community modules, which is
  a fold. `SumIsUnits` shows that over a finite set it is the number of its units, `f[x]` pairs
  for each `x`, so that what a sum does when a term or a member changes follows from the
  library's theorems about cardinality.
- **Leave, used days** (`ChargeInv`): each verification that commits is charged to the balance
  row its call had loaded. `Charged` says that there are charges, for each type no more than
  HR verified, such that neither a row nor a copy of it in a call's memory records more. A
  commit that overwrites another's days only loses some, so the charges never fall behind
  (`ChargedCommit`); a new row is charged nothing (`ChargedNewRows`). `UsedIsVerified` follows,
  with duplicate rows and overlapping calls. That finitely many rows and requests exist at any
  time (`Finite`), whatever the number of ids, is part of the invariant.
- **Leave, calls that do not overlap** (hypothesis `OneCall`): `SerialInv` adds that a call
  finds at its last statement what it found at its first (`CallInv`: still no row of the type,
  still a status that the guard accepts), which no call can rely on once two overlap. From it
  follow `OneRowWhenSerial` and `StatusGuardedWhenSerial`, through aborts at any statement.
- **Leave, the serial ledger** (`LedgerInv`, same hypothesis): the allocation is kept only
  because a submission's guard counts used and pending days together and the row tells both
  right, so neither `NeverOverAllocated` nor `LedgerMatchesHistory` is inductive. `LedgerInv`
  adds that the entity a call holds is its row as the commit will leave it (`Fresh`), that an
  open request has no verification (`OpenUnverified`), and for each type (`Ledger`) that no
  request exists without a row, that the row's used days are the verified ones and its pending
  days those of the open requests (fewer only where a verified request was rejected later),
  and that the days still claimed fit used plus pending days and these the allocation. From it
  follow `AllocationKeptWhenSerial` and `LedgerKeptWhenSerial`. TLC checked `LedgerInv` on
  `leave_serial` before it was proved.
- **Payroll, no assumption on the lock** (`SlipInvariant`): `RunsAreAnnounced` follows from what
  one transaction drafts.
- **Payroll, lock assumed** (`LockInvariant`, with `RunsFitTTL` and `DelOnce` as hypotheses):
  a call that is not idle is the one that set the key, so nobody commits between a call's
  check and its own commit. `LockExcludes`, `PaidAtMostOnce`, and the refinement
  `RunImplementsPeriod`, where `CommitRun` is the abstract payment, the write of a leave
  decision is the abstract decision and every other step is a stutter.
- **Outbox** (`InvariantHolds`): `Sound` says of every loaded entity, in any number of relays,
  that its row exists, that it may be tried once more unless its failure is just counted, and
  that it is acknowledged only after a notification; `TypeCorrect` and
  `ProcessedAfterNotification` follow. With one relay (`OneRelay` as hypothesis) the entities
  are also fresh (`Fresh`): the rows behind them are pending, and a save makes the row equal
  to the entity. Then a save is the abstract settlement and every step maps to a step of
  `EventDelivery` or a stutter (`RelayImplementsDelivery`).
- **Session** (`InvariantHolds`): `ServiceInv` says which row a call has in hand at each of its
  statements and that rows are stored in order, each replacing an earlier revoked one (so of
  the stored rows the last cannot have been replaced, which gives `SessionKeepsRow`);
  `ClientInv` ties each request's phase to the flag, the queue, the stores and the call of the
  service it waits for. From it follow the run's invariants, among them that one request
  refreshes at a time and that the queue never outlives the flag, and two properties of steps:
  `SignedOutUntilLogin`, because localStorage names a tenant only together with a refresh token,
  and `GoodTokensPass`, because the last row was replaced by none: if it is revoked, a rotation
  is half way or has failed (`LastRow`), and otherwise it is there to be found.
- **Provisioning** (`InvariantHolds`): `SavedSoFar` says of every call in progress what its own
  statements have left that no other call can take away; tables only grow. A registration is
  alone in its tenant until its administrator has the role, because the insert of the tenant
  lets one through, and two calls never work on one saved employee (`EmailsApart`), because the
  insert of the employee does. An onboarding has an administrator behind it, of whatever tenant.
  `AuditComplete`, `StaffIsApart`, `OneAdmin` and `LostIsForEver` follow.
- **Workspace** (`InvariantHolds`): one invariant per page and one of the frame; a timer
  of a visit that has ended cannot complete a later run, because it is no longer mounted.
  `DirectoryStaysConsistent`, `ProcessingIsTimed`, `DecisionsAreOffered`. `PendingIsCounted`
  adds that finitely many applications were submitted in a visit: for a range that the dialog
  accepts its count and the page's are the same (`CountsAgree`), a submission moves the meter by
  the days it puts on the board, a decision moves neither (the code never converts pending
  days), and a new visit starts both again.

The assumptions on the constants are named in the modules: among them that a tenant has
finitely many leave types, that `None` is no row, entity or call, and that the id of a new
application (`lvr-${Date.now()}`) is none of the four sample ids.

Only model-checked: liveness (`AlwaysDrained`, `LockEventuallyFree`, `PayrollSettles`), which
is out of the prover's reach. Every other property of the passing runs is a theorem.

## Not modelled

- The seeding of leave types (`ensureDefaultLeaveTypes`): two overlapping first calls insert the
  defaults twice, and nothing in the service tells two equal types apart.
- Dates and amounts: a leave is a number of days of one year, a slip has no amount. The code
  calls the Date library, and adds floating-point numbers that TLC has no counterpart for.
- The change-data-capture path (Debezium, Kafka) beside the relay, and the wording of mails.
- Search text, status filter and view mode of the directory, the totals of the payroll
  console, the theme, the dashboard's static cards and the home page: display without a
  state that a property is about.
- Configuration, logging, metrics, tracing, deployment; PostgreSQL, Redis, TypeORM and axios are
  the environment, modelled as `src/` uses them.
