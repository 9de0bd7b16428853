# Estate Pro: TLA+ models, checks and proofs

Estate Pro is a NestJS server over MySQL (through Prisma). Several server
processes may run against one database; each answers HTTP requests and runs
timers (workflow scheduler, webhook retry worker, export scheduler). Nothing but
the database coordinates them. What is hard in this program is therefore what
happens between two statements: a row read by one request and changed by another
before the first one writes, a process that dies between two writes, a claim that
two schedulers try at once. These models are about that.

Source paths below are relative to `src/src/modules/` of the repository unless
they start with `prisma/`, `docs/` or `test/`. `PROJECT.json` maps every definition
to its lines.

## 1. Inventory

### Modelled

| Part | State | Operations | Hard behaviour | What makes it correct |
|---|---|---|---|---|
| Sessions and refresh tokens (`auth`, account status from `users`) | users' status, sessions, one refresh-token family per session, tokens, row locks | login (session, then family), refresh (rotate), reuse detection, logout, logout everywhere, security revocation, disable/delete/enable account | concurrent refreshes of one token; revocation in two transactions; separate reads under READ COMMITTED; rollback | one live token per family; reuse leaves nothing alive; no refresh succeeds that starts after a revocation; a revoked token is never taken for a replayed one |
| Workflow execution (`automation`) | executions with a lease and a current node, action executions with attempts | dispatch, reclaim, find, claim, walk over the graph, action attempts, retry delay, cancel, retry | several schedulers, crash in the walk, cancel during a handler, lease expiry | one worker per execution, actions in order and not repeated after success, bounded attempts, every execution ends |
| Webhooks (`system`) | subscriptions, delivery queue with `attempt_count` and `next_attempt_at` | publish, poll, claim, send, record, test and replay (direct), cleanup, enable, disable, remove | stale poll lists, duplicate publication, unconditional writes of direct deliveries, orphaned rows | one sender, every request counted, published outcomes final, every delivery ends |
| Exports (`system`) | export jobs, cancel flags, artifact files | create, find, claim, stream, store, record, cancel, retry, cleanup, download of an expired job | file and row written separately, cancel on a stale read, crash while RUNNING | one writer per file, a downloadable artifact is complete, RUNNING rows are really held, every export ends |
| Deals (`sales`) | opportunities, negotiations, offers, deals, items, totals, closings, commissions | every command on these rows | overlapping requests, decisions on old reads, snapshot sums, updates with no condition | a deal means a won opportunity and an accepted offer; closings and commissions only on closed deals; terminal deals stay terminal; lifecycle tables respected |
| Accounts, login lockout, credentials (`users`, `auth`) | account and status, password hash, reset tokens, counter and lock of failed logins, sessions | create, update, remove, login (check, count, session), change and reset of the password, revocation | a lock and a counter written with the time a request began; revocation in a later transaction | sessions follow the password; no failure is lost; a lock in force is not shortened |
| Two-factor authentication (`auth`) | enrolment, challenges, recovery codes, failures and lock | enrol, verify, challenge, regenerate, disable | a secret replaced between check and write; guesses counted after they are compared | a code of the secret in force, a recovery code and a challenge are good once; guesses are bounded; a login that a newer secret's code overtook is refused |
| Roles and permissions | roles, permissions, grants, assignments | create, (de)activate, delete, grant, revoke, assign, remove | references counted before a deletion | nothing dangles |
| Routes and guards (all controllers, `common/security`, seeds) | none: one request against the route table | routing, guards, service checks | two controllers whose paths overlap; a code that is asked and not seeded | the handler of the path answers, strangers are refused, those admitted are served |
| Integrations (`system`) | operations with attempts and the pull cursor; the integration's state; the circuit's row and each process's window; callbacks and events; credentials | push, pull, retries, recovery; test, sync, reconnect; attempts with retries; enqueue and process; create, rotate, revoke | idempotency keys across crashes; unconditional writes; probes of two processes; duplicates | a retry is claimed once; no page is skipped; a success was the provider's; a circuit opens on failures only; an event is accepted once; versions of a credential have no gaps |
| Imports, settings, retention, alerts, notifications, lists (`system`, `automation`, all repositories) | jobs and stored rows; a versioned setting and its cache; rows with holds; alert rows; delivery rows; a list and its reader | execute, preview, cancel, retry; get, update; sweep, hold; evaluate, acknowledge, resolve; process, retry; page, insert, remove | rows and report written apart; cache filled with an old read; batches; overlapping schedulers; pages over moving rows | all or nothing; the report is what is stored; a held row stays; deliveries repeat within bounds; a reader misses only what moved |
| Workflow authoring (`automation`) | versions, the active version, the graph | draft, publish, activate, pause, archive, dispatch, validate | two publications; a pause during a dispatch | one active version, numbered without gaps, no reachable cycle |
| CRM, agents, sales work | leads, assignments, opportunities; contacts, inquiries, activities, messages; an agent's assignments, specialisations, availability, targets; stages, viewings, activities | lifecycle, assign, merge, convert; primary channels; deliver; assign under a capacity; order, book, reschedule, close | decisions on rows read before the transaction | owner and assignment agree; one primary; a conversion has its opportunity; capacity overrun bounded; no double booking but by overlap |
| Property and listing | properties, listings, agents' assignments; details, media, orders, documents; master data | lifecycle, verification, publication, sale, expiry; patches; cover, order, versions; create, remove, restore, attach, duplicate | the listing's transition writes the property; patches merged with an old row; counts before removal | a listing moves along its table; sold together; rows stay valid; one cover; no orphans but by overlap |
| Matching, content, SEO | preferences, recommendations, rules; the engine's query, score and order; articles, revisions, slugs, views; menus, likes, comments; redirects, sitemap | recommend, rate, version rules; update, restore, publish, rename; save items, toggle, moderate; create redirects, page the sitemap | versions and counters written apart from what they describe; a check for cycles before an insert | better matches rank higher and none is missed; former slugs lead on; counts agree; no redirect cycle, every row on one page |

### Interactions

- Login, refresh and every revoking caller (logout, password reset, account
  disabling, reuse detection) meet in the session, family and token rows; the
  only locks are the `SELECT ... FOR UPDATE` of rotation and the row locks of
  the updates.
- Schedulers meet each other and the HTTP requests in the `state` column of the
  queue tables. The claim is a conditional `updateMany`; nearly every other write
  is an update by uuid.
- `sales` commands meet in `(status, version)` columns; some use them as a
  condition of the update and some do not.
- Automation actions, notifications and audit records call other modules through
  ports; the modelled components see these calls as steps that succeed, fail or
  throw.

- Integrations: the synchronisation, the lifecycle and the circuit breaker write
  different tables of one integration and wait for none of each other; callbacks
  arrive while any of them runs.
- A listing's sale writes its property; agent management assigns agents to
  properties through an adapter; a conversion of a lead writes a sales opportunity.
- Every request passes the router, the guards and the permissions of its user
  before it reaches one of these components.

### Not modelled

| Part | Reason |
|---|---|
| Audit, observability, operations views, analytics, dashboard | append-only or read-only: no protocol to check |
| Health, bootstrap, configuration, DTOs, filters, serializers, OpenAPI contracts | no state, or formatting and validation of requests |
| Mapping of integration data, integration logs | a transformation of payloads; append-only rows |
| In-app notifications (`system-notification.service.ts`) | rows written once and marked as read by single statements |
| Feature flags, import profiles, runtime configuration | each operation is one upsert |
| Pipelines' own rows, lost reasons, sales reports | reference data; reports only read |
| Coverage areas and performance of agents; templates and recipients of automation notifications; names and descriptions anywhere | plain columns that no decision in the models looks at |
| Content pages' revisions, media, relations | the revision operations are reachable through no route; the rest are plain rows |
| Refresh of an integration credential | it needs a stored reference that no operation writes, so it always stops at its first check |

`PROJECT.json` lists the hazards with their lines and the properties that would
catch each going wrong.

## 2. Modules

| Module | Stands for |
|---|---|
| `RefreshTokens` | `auth` services and the refresh-token and session repositories |
| `TokenChain` | abstract specification: a chain of one-time credentials |
| `RefreshTokensProofs` | proofs about `RefreshTokens`, and that it implements `TokenChain` |
| `AutomationExecution` | `automation.service.ts`, `automation.scheduler.ts`, `prisma-automation.repository.ts` |
| `AutomationExecutionProofs` | proofs about `AutomationExecution` |
| `WebhookDelivery` | `system-webhook.service.ts`, `system-webhook-retry.worker.ts`, their repository |
| `WebhookDeliveryProofs` | proofs about `WebhookDelivery` |
| `ExportJobs` | `system-export.service.ts`, `system-export.scheduler.ts`, their repository and storage |
| `ExportJobsProofs` | proofs about `ExportJobs` |
| `SalesDeals` | `prisma-sales.repository.ts`, `sales.service.ts`, `sales.types.ts` |
| `SalesDealsProofs` | proofs about `SalesDeals` |
| `Requests` | what the modules below share: requests in progress, a clock, the focus |
| `Accounts`, `TwoFactor`, `AccessControl` | `users`, the login side of `auth`, `roles`, `permissions` |
| `HttpRoutes` | how a route is written down, and the routes of every registered controller |
| `Routing` | the router, the seeded permissions, the guards and the checks of the services |
| `IntegrationSync`, `IntegrationLifecycle`, `CircuitBreaker`, `InboundCallbacks`, `RoadmapControl` | integrations of `system`: operations, state, reliability, callbacks, credentials (and operational alerts) |
| `ImportJobs`, `SystemSettings`, `Retention`, `NotificationDelivery`, `PagedLists` | the other data of `system` and `automation`, and every paged list |
| `Workflows` | `automation`: versions, dispatch, `workflow-validator.ts` |
| `CrmLeads`, `CrmRecords`, `AgentManagement`, `SalesWork` | people and their work |
| `Listings`, `PropertyDetails`, `MasterData` | `property` |
| `MatchingEngine`, `PropertyMatching` | `property-matching` |
| `Content`, `ContentResources`, `Seo` | `content`, `seo` |
| `MCPlatform`, `MCBusiness` | the components that extend `Requests`, in two groups |
| `PlatformProofs` | proofs about `Accounts`, `TwoFactor`, `AccessControl`, as `MCPlatform` composes them |
| `SystemProofs` | proofs about the other components of `MCPlatform`, but for `PagedLists` and `Routing` |
| `BusinessProofs` | proofs about the components of `MCBusiness` |
| `MCWebhookDelivery` | the instance of the webhooks; those of `RefreshTokens` and `AutomationExecution` (symmetry, the graph of the workflow) stand at the end of these modules |

Some definitions stand beside a variant of themselves with a telling name
(`RotateLockPlainSelect`, `StillQueuedAlways`, `DealUnchangedIgnored`, ...). A
variant is the code with one plausible mistake: no lock, no condition, a
missing reset. Nothing uses the variants; each is there to be put in the place of
the definition it follows, to confirm that the property listed with it under
`mutants` then fails.

### RefreshTokens

A process (`Procs`) is an HTTP request in progress, `pc` its position and `req` its
local variables. A family is named by its session because only login creates one,
right after the session. `tok` is `"consumed"` when a rotation set `consumed_at` and
`"revoked"` when only `revoked_at` is set; the code tells the two apart, and so
does every property about reuse.

Rotation takes the token row lock (`RotateLock`), reads the family
(`RotateReadFamily`) and then session and user (`RotateReadSession`) in separate
statements, decides, and commits (`RotateCommit`), or records reuse
(`ReuseLockFamily`, `ReuseCommit`). Under READ COMMITTED each statement sees what
is committed when it runs, so each is its own action; a write becomes visible at
the commit, so the last write and the commit are one action and earlier writes only
take locks (`famLock`, `tokLock`). A revocation writes the sessions in one
statement and families and tokens in a second transaction, which may never happen
(`Abort`). `Abort` also stands for deadlock victims, lock timeouts and lost
connections.

### AutomationExecution

A worker is the scheduler of one process: `ReclaimExecutions`, `ReclaimActions`,
then up to `Batch` times `FindDue`, `Claim` and the walk (`ReadExecution` up to
`Advance`, `WaitForRetry` or `FailExecution`). No transaction spans two statements
in this code, so each statement is an action, and an operator's cancel or retry can
fall between any two. Times are kept as what is left of them and counted down by
`Tick`. A handler (external) succeeds, fails retryably or not, or throws.

`raced` records executions whose worker outlived its lease while still at work, and
those with two overlapping retries. The code protects neither, so the properties
that need exclusion are stated for the other executions. Nothing renews a lease:
that a walk ends within `automation.leaseMs` is an assumption of the code, not
something it guarantees.

### WebhookDelivery

Published deliveries are inserted by `Publish`/`Enqueue` and sent by workers:
`Poll`, `ClaimDelivery`, `CountAttempt`, `LoadDelivery`, `LoadSubscription`, `Send`,
`RecordAttempt`. Direct deliveries (test, replay) are sent by the request
(`CreateDirect`, `StartDirect`, `SendDirect`, `RecordDirect`) while their rows are
visible to workers. The rate limiter is a refusal that may come at any time, the
payload hash a comparison that may fail, decryption a step that may throw
(`DecryptThrows`). `orphans` records the deliveries whose process died, or threw,
while they were DELIVERING: no code takes such a row up again.

### ExportJobs

`StartTick` to `EndTick` is a scheduler tick, `StartJob` to `RecordJob` is
`processJob`, `Cleanup*` the removal of expired jobs. The artifact `file` is
separate from the row: `partial` while it is streamed, `complete` when stored. Only
`Claim` is conditional. `RecordFails` is a database error in the tick, which has no
catch. `orphans` and `raced` mean what they mean above; `expired` jobs are stated
apart because retry does not renew `expiresAt`.

### SalesDeals

Each command is a Read step (the rows the repository decides on, and the decision)
and a Commit step (its transaction), with the condition that the code puts on the
update, or none where the code has none. Edits of deal items have a third step
(`EditDealItemSelect`): Prisma's `update` and `delete` select before they write,
which takes the REPEATABLE READ snapshot that `recalculateDealTotal` sums over.
`addDealItem` inserts first, and the foreign key locks the deal row, so that its sum
is current. Deals are named by their opportunity (unique). `total` is a variable of
its own rather than a field of `deal`. Left out: permissions, texts,
currencies, audit, and idempotency keys (a repeated key returns the row it created
and writes nothing).

### Modules over `Requests`

These components are one idea many times: handlers of HTTP requests and timers,
each a few statements on one component's rows. `Requests` has the requests in
progress (`req`), each a record of its operation, the point it has reached and
what it has read, and the clock. An action is a statement or a transaction with
what precedes it back to the last point where another request could come in; a
read is an action of its own when something is decided by it and written later.
A request may stop after any action (`...Abandon`, `...Stops`).

The components share no rows with each other. A behaviour is therefore about one
of them, its `focus`, chosen in the first state; the others keep their initial
values. `MCPlatform` and `MCBusiness` each check a dozen or more components in
one run this way, and each of their properties gathers, under the name of what
it protects, the properties of the component modules. It is the component's own
conjunct that the mutants listed under `mutants` violate.

What the models keep and leave out, where it is not obvious:

- **Accounts, TwoFactor.** A password or code is right or wrong for the hash or
  secret that the request has read. The clock of a request is the time it began
  (`now`), as in the code; comparing it with times written by later requests is
  the point of `LockStays`. `accepted` is the history of what was verified;
  `NothingAcceptedTwice` speaks of the secret in force, because the enrolment
  (`prisma-two-factor-enrollment.repository.ts:46`) does not say which secret it
  verified: three requests can enable a new secret with an older time step.
- **Routing.** A path segment is literal, a parameter, or of no route. Only whether a
  record is the actor's own is kept of it. `RouteTable` is the registration order
  of `app.module.ts`. Handlers that can never be reached and codes that no seed
  grants are stated as the exceptions of the properties (see below).
- **IntegrationSync.** An operation is a push or the pull of one cursor. Operators
  complete at most one operation by hand (a bound), fail and retry any.
- **CircuitBreaker.** The row is shared, the window of failures and the probe flag
  belong to a process; each statement may fail, and the deadline of the call
  passes at any point.
- **PagedLists.** One list at a time, with the order, cap, page size and count that
  its repository uses; ids are given in order, and a sort value may change.
- **Retention, NotificationDelivery, RoadmapControl.** History variables record
  what a process found before somebody else changed it (`late`, `orphans`,
  `writtenOver`, `outdated`), which is where the code makes no promise. A delivery's
  attempts pass their maximum by one for each time that somebody who had counted
  fewer queued it again, so the bound is stated with that count.
- **Listings.** A version that a request compares is kept as whether it is still
  fresh. Agents are assigned by the listing service and by the adapter for agent
  management, with their different transactions.
- **PropertyDetails.** Two columns `x`, `y` stand for one pair that a validation
  relates; seven kinds of rows have each their own condition and their own way
  of writing (whole row, or patched columns).
- **MasterData.** Rows of one family (types, facilities, locations) per focus; a
  removal counts what its code counts and no more.
- **MatchingEngine.** One initial state per preference, rule and set of listings;
  the score is computed as the code does, in integers, and compared with the
  orders and the reference selection that a user would expect.
- **Content.** A text is the version that brought it, so that a revision can be
  compared with the version it says it is.

## 3. What TLC checks

| Run | Instance | Distinct states | Shows |
|---|---|---|---|
| `refresh_tokens` | 1 user, 2 sessions, 3 tokens, 2 requests, 1 time step | 561,292 | all safety properties of sessions and tokens; refinement of `TokenChain` |
| `automation_faults` | 2 workers, 1 execution, 2 attempts, batch 2, 1 fault | 444,016 | an execution is SUCCEEDED only when its actions succeeded, attempts bounded, no repetition of a succeeded action, every execution ends |
| `automation_operators` | 2 workers, 2 operators, 2 requests, 1 fault | 1,546,922 | one worker, handlers in order (`HandlersInTurn`), cancelled executions rest |
| `automation_lifecycle` | 1 worker, 1 operator | violated | finding 1 |
| `webhooks` | 1 subscription, 1 event and 1 direct key, 2 workers, 2 callers, 1 crash | 297,398 | one sender and every request counted (`SentByOneAndCounted`), final outcomes, every delivery ends |
| `webhook_two_workers` | 1 direct key, 2 workers | violated | finding 2 |
| `exports` | 1 job, 2 workers, 2 callers, 3 requests, 1 crash, other RUNNING jobs | 267,298 | one writer and complete downloads (`ArtifactWhole`), RUNNING rows are held, finished jobs rest, every export ends |
| `sales_deals` | 1 opportunity, negotiation, offer, item; 2 requests; versions up to 5 | 1,586,618 | deals, closings, commissions, lifecycles |
| `sales_terminal` | the same | violated | finding 3 |
| `platform` | 18 focuses, 2 requests each (1 or 2 of each row) | 1,101,961 | the platform's components, below |
| `business` | 31 focuses, 2 requests each (1 to 4 of each row) | 984,715 | the business components, below |
| `listing_sold` | 1 property, 1 request | violated | finding 4 |

The properties of the two group runs are conjunctions:

| Property | Conjuncts |
|---|---|
| `IdentityInvariant` | `SessionsFollowPassword`, `ThresholdLocks` (Accounts); `NothingAcceptedTwice`, `ChallengeGuessesBounded` (TwoFactor); `NoDanglingAssignment` (AccessControl) |
| `LoginSteps` | `LockStays` (Accounts), `OvertakenLoginRefused` (TwoFactor) |
| `IntegrationInvariant` | `RetryClaimedOnce`, `NoPageSkipped`, `SucceededWasDone` (IntegrationSync); `DuplicateWasProcessed`, `AcceptedOnce` (InboundCallbacks); `ReconnectedOncePerKey`, `ConnectingIsHeld` (IntegrationLifecycle); `OpenedByFailures`, `ProbeFlagIsHeld` (CircuitBreaker); `CredentialHistory` (RoadmapControl) |
| `SystemDataInvariant` | `AllOrNothing`, `ReportMatchesStore` (ImportJobs); `VersionReplacedOnce`, `StaleOnlyWhenOvertaken` (SystemSettings); `SentOncePerScheduler`, `DeliveryAttemptsBounded`, `SendingIsHeld` (NotificationDelivery); `HeldIsKept`, `SweepIsComplete` (Retention); `SignalsAreSeen` (RoadmapControl); `OneActiveVersion`, `VersionsNumbered`, `PausedIgnoresEvents` (Workflows) |
| `DecisionInvariant` | `WalkMissesNothing`, `WalkRepeatsNothing`, `PageMatchesTotal` (PagedLists); `ReachesOwnHandler`, `StrangersRefused`, `AdmittedAreServed`, `AdministratorServed` (Routing); `CycleFoundIfReachable` (Workflows) |
| `PeopleInvariant` | `OwnerIsAssigned`, `ConvertedHasOpportunity` (CrmLeads); `OnePrimary`, `TimestampsFollowStatus` (CrmRecords); `CapacityOverrunBounded`, `OnePrimarySpecialization`, `AvailabilityOfOneSave` (AgentManagement); `StagesContiguous`, `StagesAsAsked`, `NoDoubleBooking`, `OneOutcome` (SalesWork) |
| `EstateInvariant` | `SoldTogether` (Listings); `ExtrasStayValid`, `OneCover`, `OrderIsAsked`, `VersionsContiguous` (PropertyDetails); `NoOrphans`, `AttachedIsKept` (MasterData) |
| `ListingSteps` | `ListingAlongTransitions`, `ActivatedVerified` (Listings) |
| `BetterRanksHigher` | of MatchingEngine, on its own |
| `PublishingInvariant` | `QueryMissesNoMatch` (MatchingEngine); `NotStaleIsCurrent`, `OneActiveRule` (PropertyMatching); `RevisionOfItsVersion`, `FormerSlugRedirected`, `ViewsCounted` (Content); `NoRedirectCycle`, `SitemapComplete` (Seo); `ItemsOfLastSave`, `ItemsInPlaces`, `LikesCounted`, `CommentsCounted`, `CommentsSpaced` (ContentResources) |

Why the bounds are enough for what they show. The properties relate one row, or
the few rows of one owner, to the processes that touch them, and these rows
interact only through shared processes: two processes give every race between
a decision and a write. Two sessions are there because logout-everywhere and
security revocation act on several; two subscriptions' worth of deliveries are the
published and the direct one; jobs compete for the concurrency limit. Three
tokens allow two rotations in a row, so a replay of a token that is two generations
old. `MaxVersion = 5` takes an opportunity from OPEN to WON and ARCHIVED, also
through a loss and a reopening. Two attempts give one retry and its exhaustion.
Thresholds of one or two are reached by one or two failures; three pages of rows
(`LastPage = 2`) pass a cap on the page; two caches' times to live pass in one step of
the clock. Four graph nodes have every shape of a cycle that the validator tells
apart. In the group runs a clock of one step separates what is before from what
is after an expiry. The bounds on crashes, requests, calls, versions and schedules
cap counters; for the components of section 4 the proofs remove the bounds on rows,
processes, crashes and requests.

Symmetry is used over processes, rows and tokens, never in a run with a liveness
property, and never over constants that a definition chooses from; `SalesDeals` is
checked as it is, without an MC module. Deadlock is
checked in the runs of one component, which never come to a halt; in the group
runs and `listing_sold` it is not, because there a component ends when every row
and counter has reached its bound.

### Fairness

Liveness is checked under weak fairness of every worker's step, every request's
step once it has begun, and the passing of time: timers are `setInterval`s that keep
firing, queries and `fetch` return or time out, and handlers return. Crashes stop
(their number is bounded), which is what lets the others finish. No fairness is
assumed of clients, operators, events, crashes or expiry. A worker that died starts
again as a new process. The components of the group runs have no liveness
property: nothing in them but their clients' next request makes anything happen,
or, where a timer does, a crash ends the progress for good, which the safety
properties about orphans say.

### Findings

1. **A cancelled execution becomes SUCCEEDED** (`automation.service.ts:660`).
   `WorkflowExecutionAggregate` forbids leaving CANCELLED
   (`domain/automation.types.ts:292`), but the service writes the state without it
   and checks for CANCELLED only at the top of its loop.
2. **Two workers on one direct delivery** (`system-webhook.service.ts:577`). The
   direct path writes DELIVERING and RETRYING unconditionally, so a row that a
   worker has claimed becomes claimable again. The worker's test says that it "does
   not process a delivery claimed by another worker".
3. **The total of a terminal deal changes** (`prisma-sales.repository.ts:791`).
   Editing items checks the deal's status before the transaction that writes, and
   writes by uuid. "Terminal deal cannot be edited" is what the same method answers
   when it sees the terminal status in time.
4. **A sold property becomes rented** (`listing.repository.ts:376`). A listing's
   transition writes its status to the property whatever the property's is, so an
   archived listing that is activated again and rented out takes the property out
   of SOLD, which `docs/27-property-401-509-verification.md:171` calls terminal.

### What the properties except

Each of these is how the code behaves, found by stating a property without the
exception. The properties name them, so that nothing beyond them goes unnoticed.

- *Routes.* `GET system/integrations/metrics`, `GET system/jobs/metrics` and
  `GET crm/communications/health` are shadowed by `:uuid` routes registered before
  them. The guard of the sessions of other users looks for permissions in the
  token, which has none, and refuses everybody. `audit:read` is asked for and not
  seeded; so are `sales.manage`, `crm.manage` and `crm.leads.manage`, each beside
  another code. For an agent's own assignment the guard and the service ask for
  different codes.
- *Integrations.* A process that stops leaves an operation RUNNING, an integration
  CONNECTING, or a callback's key reserved, and each then answers 409 or
  ALREADY_QUEUED until an operator intervenes. Test and sync re-activate a disabled
  integration. A success recorded in the circuit late closes it, and a probe flag
  stays when the update to HALF_OPEN fails.
- *Notifications.* Deliveries are not claimed, so each scheduler may send one; a
  crash leaves it SENDING.
- *Lists.* Sales lists cap the number of the page at 100 and repeat that page for
  higher ones; many lists order by a column that is not unique; page and total
  are separate statements nearly everywhere.
- *Retention.* A hold that has expired still keeps its row until it is released; a
  hold set between a sweep's read and its deletion does not.
- *Credentials and alerts.* A revoked newest credential can be rotated into a new
  active one. Acknowledging an alert writes back the whole alert as it was read.
- *Property.* A creation and a removal that overlap leave a live row under a removed
  parent. Deleting a type counts nothing.
- *Sales.* Two overlapping bookings of a slot both pass the check.
- *Content.* The row of a menu is changed even if its items are refused; crossing
  toggles can leave a stale count of likes.

## 4. What is proved

Every theorem is for arbitrary sets of users, rows, processes and workers, and for
any number of crashes, requests and attempts: the constants of a `.cfg` bound the runs
and not the theorems. TLAPS assumes what the modules `ASSUME`, which TLC evaluates in
their runs: `None` is none of the rows or processes; times to live, limits and bounds
are natural numbers (positive where the code's configuration makes them so);
submitted amounts are natural numbers and the items of a deal a finite set; requests
in progress are a finite set; and the graph of a workflow is one that
`WorkflowValidator` accepts (`GraphAssumption`). For the components that extend
`Requests`: no column and no request is mistaken for NULL (`None` is outside the sets
of rows and requests that a module names, such as `JobRow`, `MediaRow`,
`CommentRequest`); the items that are put in order, the paths and the stages are
finite sets; a preference and a candidate have ends of prices that are natural numbers
or NULL, there is at least one of each, and of sizes of parts and of tables; the rows
of master data that are there at the beginning refer to rows that are there too, of a
level that may be referred to; and every focus names one component
(`FocusesAssumption`).

The proofs have one form. `IInv` (the name of the inductive invariant of a
component) adds to the property what each process in flight knows at the point it
has reached; a lemma says what a step that changes only one process must show; one
lemma per action shows it; the property and the action properties follow from `IInv`
and one step. Each `IInv` was checked by TLC on the instance of the component's run
before it was proved.

### RefreshTokensProofs

`TypeCorrect` (`TypeOK`), `OneLiveToken` (`SingleLiveToken`), `ChainUnbroken`
(`LiveFamilyHasToken`), `ReuseIsFinal` (`ReuseKillsFamily`), `NoFalseReuse`
(`RevokedTokenMeansRevokedFamily`), `RevocationSticks` (`RefusedOnceRevoked`),
`Refinement` (`ChainSpec`).

None of the invariants is inductive alone. `IInv` adds what the requests in
flight know:

- `RefreshInv`: a refresh works on a token that exists and on its family, and a
  session that was revoked when it began still is;
- `LockInv`: past its first statement it holds the token row, and **at the point of
  rotating the token is still live**. This is the heart: two rotations of one token
  exclude each other by the row lock, and a revocation cannot revoke a locked token;
- `RevokeInv`: a revocation about to revoke tokens holds every family of its
  snapshot that is still live, so that family and token change together;
- `LoginInv`: a login between its statements owns a session that has no family;
- `RowInv`, `SessInv`: references exist.

In the refinement a rotation is `Exchange`, login's family is `Open`, every
revocation is `Close`, and the rest stutters.

### AutomationExecutionProofs

`TypesKept`, `SuccessIsWhole` (`SucceededMeansDone`), `HandlersTakeTurns`
(`HandlersInTurn`), `AttemptsStayBounded` (`AttemptsBounded`), `SucceededActionsStick`
(`SucceededActionSticks`), `CancelledStays` (`CancelledRests`).

- `WalkInv`: wherever an execution or a worker stands on the graph, every action
  behind it on the walk has been done. This part holds **also for executions that
  raced**: two workers on one execution may repeat an action, but neither skips one.
  It rests on lemmas about `WalkFrom`, the least set closed under `NextNode`, which
  need no induction over the length of a walk;
- `LeaseInv`: as long as nobody outlived a lease, who holds an execution has its
  lease, or the execution was cancelled under it. With the conditional claim this is
  why there is one worker;
- `RetryInv`, `ReadInv`: an operator's retry is alone with its execution; a worker's
  copy of an attempt is the row's;
- `AttemptInv`: as long as an action can be started without a further fault or
  request (`MayStart`), a start is left under the bound.

### WebhookDeliveryProofs

`TypesKept`, `OneSenderAndCount` (`SentByOneAndCounted`), `FinishedStay`
(`PublishedFinal`).

- `ListInv`: a worker polls once and claims much later. The count that it read is
  still the row's as long as the row is due at the time of its poll, because every
  claim moves the row out of that set and only a later `next_attempt_at` brings it
  back;
- `HoldInv`, `OneHolder`: who has claimed a published delivery has it alone, in
  DELIVERING, with its count;
- `QueueInv`: a row that can be claimed has an attempt left;
- `CleanInv`: a cleanup deletes only finished rows, also when it read them before.

### ExportJobsProofs

`TypesKept`, `WholeArtifacts` (`ArtifactWhole`), `CountedAreHeld` (`RunningIsHeld`),
`FinishedStay` (`FinishedRests`).

- `WorkInv`: a job that is worked on can be cancelled or deleted under its worker, and
  nothing else, so that no second claim finds it QUEUED;
- `RetryInv`: a job about to be queued again has no worker and no second retry;
- `StoredInv`: what a worker has stored is complete when it records its success,
  although clean-ups and failed streams unlink files;
- `Unborn`: a uuid that was not inserted is known to its creator only.

### SalesDealsProofs

`TypesKept`, `DealsAreWon` (`DealMeansWon`), `PaidDealsAreClosed` (`PaidMeansClosed`),
`TerminalDealsRest`, `LifecycleKept` (`OpportunityLifecycle`).

The strengthening is `ReqInv`: what a request decided at its Read step and can still
rely on at its Commit step. It can, for one of two reasons. Either the update is
conditional on what was read (transitions of opportunities and deals, offers), or
the fact is one that no step undoes, which is `Persist`: an
accepted offer stays accepted, a closed deal stays closed, a negotiation keeps its
opportunity. `IInv` is `Shape`, `References`, `ReqInv` and the two invariants;
each action is shown to keep the rows' part and to satisfy `Persist`, and `Persist`
carries `ReqInv` over for the requests that did not move.

`TypesKept` needs that the total of a deal, a sum over its items by a recursive
function, is a natural number. The library's induction theorems are out of reach
(below), so `SumsExist` and `TotalIsNat` go by a least counterexample: of the numbers
`n` such that no function is the sum of all sets of up to `n` items one is the
smallest (`Smallest`), and a function for it is built from one for `n - 1`.

### PlatformProofs

`IdentityIsSafe` (`IdentityInvariant`) and `LoginStepsAreSafe` (`LoginSteps`), as
theorems of the composition `MCSpec`. `PlatformInv` says that the component which a
behaviour is about satisfies its invariant, and that the others are as they began.

- `AccountInv`: a request never holds a time that is still to come, and the counter is
  at the threshold exactly when the lock is set. So a later failure, counted with the
  earlier time of its request, never shortens a lock in force;
- `TwoFactorInv`: a secret under enrolment is nobody else's and nothing was accepted
  for it (`SecretsAreNew`); what was accepted is recorded by the row it was accepted
  against, in the last step used, the codes left and the challenge consumed
  (`AcceptedIsKept`); and a challenge's failures together with the requests that
  have passed its check and not counted yet stay under the bound (`GuessesCounted`),
  by the cardinality theorems of the library;
- `AccessInv`: an assignment refers to a role and a permission that are there. The
  transactions read and write in one step, which makes this the shortest proof.

### SystemProofs

`ExchangeIsSafe` (`IntegrationInvariant`) and `TablesAreSafe` (`SystemDataInvariant`).
`SystemInv` has one conjunct for each component: if the behaviour is about it, its
invariant, else its initial state, from which its property is read off.

- `SyncInv`: whoever deals with the pull of a page has all pages before it behind them
  (`PagesBefore`), and so has the cursor; an answer about to be recorded was given.
  Claims and the retries that are due and unclaimed (`DueRetries`) are together at most
  the times that a retry was scheduled: the bound on claims alone is not inductive;
- `CallbackInv`: an event found or made PROCESSED stays so, and the request that created
  the event is the only one that will answer QUEUED;
- `LifecycleInv`: a key of a reconnection has one holder, which found it free; the holder
  alone calls the provider, and nothing is called a success before it confirmed
  (`HoldersApart`);
- `BreakerInv`: a state that is not CLOSED, wherever it was read or is about to be written,
  is as old as the trip; the flag of a probe is up only as long as a request works under
  it, or it was left (`FlagsHeld`);
- `ControlInv`: the versions of a credential are `1 .. n`, and one that was read as the
  next is at most `n + 1`, so that the unique key decides; an alert that was read stays;
- `ImportInv`: what a request has counted it has stored, and as long as it has no error
  it has prepared, and then stored or still to store, every row; a key has one import
  (`KeysApart`);
- `SettingsInv`: a cache that holds an old version has an update that will still empty it
  (`Invalidates`), or was filled by a reader that was overtaken;
- `NotifyInv`: the times a delivery was sent are at most the schedulers that do not have
  it on their list (`Idle`); the attempts above the maximum are counted by who queued
  it again with an old count;
- `RetentionInv`: of what was due, a sweep that is followed has removed all of the first
  table, and has found a full batch if it has not found all of the second;
- `WorkflowInv`: as long as publications do not overlap or stop, the active versions
  are the one the workflow points to, then that and the new one, then the new one
  (`PublicationsApart`).

### BusinessProofs

`EstateIsSafe` (`EstateInvariant`), `ListingStepsAreSafe` (`ListingSteps`), `PeopleIsSafe`
(`PeopleInvariant`), `PublishingIsSafe` (`PublishingInvariant`). `EstateInv`, `PeopleInv`
and `PublishInv` compose the components as `SystemInv` does; for most, that the others
rest is only needed as far as the property goes (`OneActiveRule`, `menuItems = <<>>`).

Properties and listings:

- `ListingsInv`: the status that a request is about to write follows the one of the row
  as long as the version it holds is the row's, which the write compares. `ListingSteps`
  follows from it and one step;
- `RowInv`: the row of extras about to be written was validated as a whole. `MediaInv`: who
  holds the lock is one and will clear every other cover there is, and who writes
  without it makes none. `DocumentInv`: the number an upload has read is at most one
  beyond the last, and the unique key refuses one that is taken;
- `OrderInv`: an item stands where the one reorder that has updated it wants it, or where
  the last committed one put it. Reorders update in the same order and hold the rows
  they have updated, so they do not interleave;
- `MasterInv`: a row that is removed **or about to be** (`Doomed`) is referred to only by
  rows that met the removal, or that a request about to write will make so.

People:

- `LeadInv`, `RecordInv`: the leads that a request found are there, a conversion about to
  be marked has its opportunity; what is completed or delivered has been started or sent
  before, because the request that says so has read the mark;
- `CapacityInv`: the work of an agent, **together with the requests that have compared
  the capacity and not written yet** (`Takers`), is at most the largest capacity plus
  the number of requests less one. The property alone is not inductive: it says
  nothing of how many are about to take more;
- `StagesInv`: a stage about to be created was not counted, and nobody else creates it; a
  list about to be written names stages that are there, each once. One as long as the
  stages there are is all of them (`OrdersOutside`, by counting), so no gap is left;
- `ViewingsInv`: two bookings of a slot that both passed the check were under way at the
  same time, and their pair is in `crossed` from when the second begins;
- `SaveInv`, `SpecializationInv`, `ActivityInv`: one save has replaced the row of the week
  and holds its lock until the three agree; outcomes of an activity and the requests
  that found it open are together at most the requests there are.

Recommendations and content:

- `EngineInv` only says where preference and listings come from; the content of
  `QueryMissesNoMatch` is arithmetic. `BudgetLetsThrough` relates the engine's whole
  cents, rounded down, to the query's exact decimals, and `LevelsAgree` the engine's
  walk down the levels of a place, which stops at the first that differs, to the query's
  comparison of each: the first level that differs is a least one, and the engine reaches it;
- `PreferenceInv`, `RuleInv`: a recommendation, stored or being computed, of the version
  that the preference has now was computed from its criteria, and the preference was
  not archived; a version number is never used again;
- `ArticleInv`: `RevisionOfItsVersion` needs that a revision about to be stored by
  `revise` is the article of the version it read. While updates do not overlap, the
  one under way knows the slug of before, and between its two writes it is the one
  that owes the missing redirect;
- `RedirectInv`: **the absence of cycles is stated by sets instead of paths.** From each
  path `s` one does not come back to `s`, because what `s` leads to lies in a set that
  redirects do not leave and that does not hold `s` (`LeadsAway`). The paths that the
  walk of a creation has seen (`Walked`) are such a set once it ends, also for the
  redirect that the upsert replaces. `NoWayBack` goes from sets to `Hops`, by the least
  number of redirects followed that would leave the set;
- `SitemapInv`: the parts hold exactly the rows up to the greater of the start of the
  part and the place of the loop (`RowsUpto`), each once; `AllRowsCounted` adds the four
  tables up and `PartsSuffice` is the division with its remainder;
- `MenuInv`: while saves have not overlapped, the one under way is the menu's last.
  `LikesInv`: a toggle that has been alone since it began stores the count of the likes
  there are. `CommentsInv`: counted comments, those whose request stopped and those about
  to be counted are all comments; a second comment in a minute was crossed or excused.

### What the proofs found

- The model of a webhook cleanup (`CleanupDelete`) left a deleted uuid in the rows
  of another cleanup under way, so that `CleanInv` was not inductive: the second
  cleanup would have deleted a delivery published again under the same name. A uuid
  is not drawn twice; the model now says so.
- `NothingAcceptedTwice` held in the model for two overlapping requests and not for
  three, and so did what `LoginSteps` said of replaced secrets. Neither the enrolment
  nor `recordSuccessfulVerification` names the secret that was verified. The
  properties now say what the code guarantees for any number of requests.
- `DeliveryAttemptsBounded` was stated with a bound that three processes and an
  operator's retry exceed; it is now stated with what causes each excess.
- Two counts of `PublishingInvariant` (`ViewsCounted`, `CommentsCounted`) count requests by
  their operation. That no request of another component has such an operation was true of
  the composition, and stated by nothing; they are now stated for the behaviours about
  the components that they belong to.
- The instances gave `None` values that happened to be no row; what the argument needs is
  that no row and no request of any instance is taken for NULL. The modules now name
  these sets and assume it.

### Only model-checked

- Liveness (`EveryExecutionEnds`, `EveryDeliveryEnds`, `EveryExportEnds`): TLAPS does
  not treat fairness and `ENABLED`.
- `DecisionInvariant`. Its routing part evaluates a table of more than a thousand routes,
  which is a computation and not an argument, and TLC's answer is for the whole table;
  `CycleFoundIfReachable` is about a recursive search; the walks of `PagedLists` sort
  sequences.
- `BetterRanksHigher`: it compares sums by folds over the criteria and a sorted sequence,
  operators of the community modules that need induction over the data.
- `PlatformTypeOK` and `BusinessTypeOK`: the types of all rows of a group. What the proofs
  need of them is in the invariants of the components; the rest, types of rows that no
  argument looks at, says less than it costs.
- What a recursive definition computes for every input, where no least counterexample
  helps: the score of the matching engine, the validator's search for a cycle.

## 5. Plan

What is left, in this order:

1. An abstract one-holder queue that the claim protocols of webhooks, exports and
   automation implement: with `OneWorker`, `OneHolder` and `OneWriter` proved, the refinements
   are step simulations.
2. `Accounts` and `RefreshTokens` composed, so that a refresh meets a change of
   the password. Both act on the same sessions; here each has its own.
3. The validator's acceptance as the discharge of `GraphAssumption` of
   `AutomationExecution`.
4. The pages of `PagedLists` proved, with the position of a row in the order of its list
   stated by counting instead of sorting.
5. The operational reads of `system` (dashboards, metrics) once they decide anything.
