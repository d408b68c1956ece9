# Aegis Marketing Cloud: TLA+ models and proofs

This directory is a verification development for the backend under `src/src/backend` (FastAPI, SQLAlchemy,
Redis, Celery). Paths below are relative to
`src/src/backend/app` unless they say otherwise. `PROJECT.json` has the tables behind this text: components,
runs, mutants, the map from definitions to source lines, hazards and theorems.

## 1. The system

The application runs as several uvicorn worker processes (four in the production image,
`src/src/backend/Dockerfile:67`). Every worker is one asyncio event loop; state kept in Python objects is per
worker. Workers share PostgreSQL, Redis (rate limits, pub/sub) and, behind the knowledge base, Qdrant.

| Component | State | Operations | Interacts with |
|---|---|---|---|
| WebSocket hub, `core/websocket.py` | three dicts: owner by socket, sockets by user, sockets by workspace; the listener and heartbeat tasks | connect, disconnect, three ways to send, listener, heartbeat, startup, shutdown | endpoints, Redis, notification service |
| WebSocket endpoint, `api/v1/ws.py` | one coroutine per socket | welcome, message loop, typing and status relays | hub |
| Notification service, `core/notification_service.py` | rows of `notifications` | send, list, count, mark read, mark all read, delete | database, hub, Redis |
| Second notification service, `services/notifications.py` | the same rows | the same, flushing only | database |
| Frontend notification hook, `src/src/frontend/src/hooks/use-notifications.ts` | socket, timers, list, unread count | connect, reconnect, heartbeat, mark read | endpoint, REST API |
| Database session and pool, `database.py`, `api/deps.py` | one transaction per request, connections of a worker | `get_db`, authentication, tenant membership | every service |
| Accounts, `services/auth.py` | users, sessions, API keys, SSO links | register, login, refresh, change password | database |
| Tenancy, `services/tenant.py` | tenants, workspaces, roles, invitations | create, rename, invite, remove | database |
| Rate limiter, `core/middleware.py` | two sorted sets per identity in Redis | one Lua script per request and window | Redis |
| Webhooks, `services/webhooks.py` | webhooks, deliveries | register, dispatch, attempt, retry, clean up | receivers over HTTP |
| Generic rows, `services/base.py` | every table with a tenant and a deletion mark | get, list, count, create, update, soft delete | database |
| Billing, `services/billing.py` | subscriptions, invoices, payments, wallets | subscribe, change, cancel, invoice, Stripe events | Stripe |
| E-mail, `services/email_service.py` | templates, campaigns, messages, a sending limit in memory | send, bulk send, tracking and provider events | SMTP, SES, SNS |
| CRM, `services/crm.py` | contacts, scores, activities, pipelines, deals | CRUD, search, move stage, win or lose | database |
| Marketing, social, SEO, marketplace | posts, keywords, installations, marketing's tables | CRUD, publish, install | social platforms (simulated) |
| Knowledge base, `services/knowledge_service.py` | documents, chunks, vectors | upload, change, reindex, search, delete | Qdrant, embeddings, database |
| Agents, `core/agent_orchestrator.py` | agents, conversations, executions | execute, converse, show | LLM endpoint |
| Analytics, `services/analytics.py` | events, hourly snapshots, dashboards, reports | track, aggregate, query | database |
| Media, `services/media.py` | assets and their files | upload, download, delete | MinIO or disk, database |
| Lead scoring, `services/ai_service.py` | - | score a contact by rules | CRM |
| Feature flags, `core/feature_flags.py` | overrides in one worker's memory | set, clear, evaluate | - |

`PROJECT.json` lists the rest (search, articles, workflows, GraphQL, deployment, ...) with the reason why each is
left out.

What is hard about it:

* **One event loop, many tasks.** Nothing runs in parallel inside a worker, but every `await` lets another task
  run. The hub iterates its own sets over awaits while others change them; an exception in one task (the
  listener) silently takes a function away from the whole worker.
* **Several workers.** What one worker keeps in memory the others do not see; Redis pub/sub is at most once.
* **Transactions.** Requests interleave in PostgreSQL under READ COMMITTED: check-then-insert, select-then-update
  and an UPDATE with its own snapshot. Only some services commit at all: `get_db` closes the session without a
  commit, and the tests share one session, so that no test can tell the difference.
* **Resources.** A request takes two database connections from one bounded pool.
* **Time.** Rate limits are counted over stamps that reach Redis out of order; events of a mail provider come in any
  order and more than once.
* **Two stores.** Vectors in Qdrant and files in MinIO change at once while the rows that speak of them wait for a
  commit, and either may fail with the other done.
* **Differently written queries.** What a get, a list, a count and a search show of the same rows comes from
  separate queries; some filter by tenant and deletion mark and some do not.

What makes each component correct: the hub's three structures agree, whoever is served is registered and whoever
has gone is forgotten; what is pushed is stored and is delivered once per path and in order; what a response
reports is there afterwards; connections and row locks are given back and nobody waits forever; a limit holds in
every window and nobody is rejected below it; a delivery's row tells the truth about its POSTs; a password change
ends the sessions, a rotation uses its token up; an account comes whole or not at all and has every unique name
alone; money is asked for once and is in the books when it has come; a campaign accounts for every recipient; a
post is published once; an indexed document has its own chunks and no older ones; a row's file exists; and what
the readers of one service show agrees.

## 2. Modules

| Module | Models | State and actions |
|---|---|---|
| `SocketLifecycle` | abstract: what any registry of sockets promises | a socket is unknown, registered or forgotten; it is forgotten only when its peer has gone, and then at last |
| `ConnectionManager` | hub, endpoint, listener, heartbeat of one worker | `owned`, `userConns`, `roomConns` (with their keys) are the three dicts, `endpoint` the coroutine of each socket, `task` the activation of `_broadcast_to_set` in each task; it implements `SocketLifecycle` under `Status` |
| `NotificationDelivery` | `send_notification`, Redis, every worker's listener, one client | `stored` rows, `sender` the request's progress, `inbox` what Redis has pushed to each listener, `conn` where the client is, `received` what it got |
| `RequestSession` | `get_db` and a service that commits or only flushes | `pending` writes of each session, `deleted` committed ones, `told` responses |
| `ConnectionPool` | dependencies of an endpoint and the engine's pool | `at` each request's place, `free` connections |
| `WebhookDelivery` | registration, dispatch, attempts, retries, clean-up | `webhook` and `delivery` rows, `posts` the history of each delivery |
| `RateLimiter` | the middleware and its Lua script | `zset`, `expires` in Redis, `at`, `stamp` of each request, `script`/`loaded`/`up` |
| `AuthSessions` | login, refresh, password change of one account | `row` sessions, `password`, `lock` row locks, `seen` the rows an UPDATE has found and not visited |
| `TenantRows` | `services/base.py` | no state of its own: tables as sequences of rows with tenant and mark; get, list, page, soft delete |
| `Tenancy` | registration, SSO login, tenants, workspaces, invitations, API keys, deactivation, removal as READ COMMITTED transactions | `rows` committed; each call's `task`, what it has flushed (`added`, `removed`), what it has still `todo`, its `stage` |
| `Billing` | subscriptions, invoices, wallet, usage, Stripe's events | `subscriptions`, `invoices`, `wallet`, `usage`; history `settled`, `topped` |
| `EmailMessages` | templates, campaigns, single and bulk mails, tracking, SNS and provider events | `templates`, `messages`, `campaigns` |
| `EmailLimiter` | the limit per worker: check, send over an await, count | `counts` stamps of each worker, `sending` requests past the check, `left` of each campaign |
| `Contacts`, `Deals` | the two halves of the CRM | `contacts`, `scores`, `activities`, `fields`; `pipelines`, `deals` |
| `Outreach` | social posts, installations, keywords, marketing's tables | `posts`, `installations`, `keywords`, `assets` |
| `KnowledgeIndex` | documents and their points, each call of Qdrant may fail | `documents`, `points`, `collections` |
| `Agents` | agents made at first use, executions, conversations | `agents`, `executions`, `conversations` |
| `Analytics` | events, aggregation, dashboards, reports | `events`, `snapshots`, `dashboards`, `reports` |
| `Media` | upload with validation, download, deletion, restart with another backend | `media` rows, `files` of each backend, `minio` of this process |
| `Inbox` | list, read, count, delete by two services on the same rows | `inbox` |
| `FeatureFlags` | defaults of the tiers, overrides of a process | `overrides`, `asked` |
| `LeadScoring` | the rules of the lead score | `lead`, the fields that they read |

`MC...` modules give the constants small values; `...Proofs` modules hold the theorems. Operators marked
"Mutant" in a module are changed forms of a definition which the checks must find fault with; no specification
uses them.

### How steps are cut

A step is what one task runs between two awaits.

* `ConnectionManager`. The asyncio lock is not a variable: no section that it guards awaits, so it is never
  contended. The loop of `_broadcast_to_set` awaits a send per element; `task[t]` keeps the set it iterates
  (an entry's set, a private copy, or a set whose entry has been deleted), what it has visited and what it holds
  for stale. CPython's set iterator raises `RuntimeError` when the set's SIZE differs from the size at the start;
  with the same size again it may skip elements, because the set may have been rehashed. A send to a client that
  is there succeeds; to one that has gone it may succeed (buffered) or fail. Token checks are left out: a socket
  whose token is rejected never reaches the hub.
* `NotificationDelivery`. Commit, publication and local send are separate steps; Redis pushes to all subscribers
  at the moment of publication. The build accepts redis 5.0, whose client does not retry; a lost reply is an
  outcome of its own.
* `RequestSession`. A write is the deletion of a record; a row that another session has written and not
  committed is waited for.
* `WebhookDelivery`. A handler awaits its own session and its own POSTs only, and everything it writes is flushed
  and not committed; the module shows the ledger as one session sees it, handler by handler, and `RequestSession`
  says what becomes of its writes in deployment.
* `RateLimiter`. Reading the clock, checking the minute and checking the hour are separate steps, up to
  `MaxDelay` ticks apart. Redis keeps its keys and not its scripts over a restart (`src/docker-compose.yml`,
  appendonly). Lua numbers become integers in a reply: what the script returns is truncated.
* `AuthSessions`. The first read, the flush, each row that an UPDATE waits for, and the commit are separate
  steps. `change_password`'s UPDATE has the snapshot of its beginning; it re-evaluates a row it has waited for
  and never sees a new one. PostgreSQL ends one of several transactions that wait for each other. `login` loads
  `user.mfa_devices` lazily (`services/auth.py:164`), which an `AsyncSession` refuses outside of its greenlet; the
  model lets it fail (`Refuse`) or succeed.
* `Tenancy`. Reads, each flush, the commit and the refresh after it are separate steps. A flush waits for a row, or a
  place in a unique index, that another transaction holds, fails when the place is taken, and may be chosen as the
  victim of a deadlock. Lists and checks read what is committed at that moment.
* `EmailLimiter`. Everything between two awaits is one step; a campaign checks and sends mail by mail.
* The other services, the notification rows apart, flush and never commit, and their modules show the tables as one
  session sees them: an action is a whole handler with what it calls. `RequestSession` says what becomes of their
  writes in deployment. Where a handler calls Qdrant, an LLM, MinIO or the embedding service, each call may fail and
  the handler stops there; so may the flush after a call whose effect nobody takes back (points, files, mails that
  have gone out).
* Responses. A reader is modelled by what its handler answers and not by what its query finds. Where the response
  cannot be made of the rows (section 5, "Responses"), the reader's value is `"error"` when there is a row to show,
  and what the properties compare is which readers fail.
* Steps merged because nothing can come between them that a property sees: `Tenancy.NewAccount` has the three flushes
  of `services/auth.py:79-99`, of one transaction, in one step; `ConnectionManager.Disconnect` is taken by a client
  that has gone, although an `AttributeError` at `api/v1/ws.py:115` or `:220` ends the endpoint of a live one the same
  way; `SendNext` does not yield a socket again after the set has been rehashed.

## 3. Runs

| Run | Question | Answer and bounds |
|---|---|---|
| `hub_safety` | Do the hub's structures stay consistent while broadcasts iterate them? | Yes. Three sockets, two users, two rooms (one global); a relaying client, a request and the listener broadcast. Two sockets in one pool are the least for a size change, the third one makes two pools share a user. |
| `hub_liveness` | Does every broadcast end and every gone client get forgotten? | Yes, with Redis failing and the listener dead too. Two sockets in one pool; a client, the listener and the heartbeat broadcast. |
| `hub_listener` | Does a running worker keep its listener? | **No**: a connect or disconnect during its broadcast ends it, Redis being up all the time. |
| `push_delivery` | Is what is shown stored, delivered once per path, in order, to local clients, at last? | Yes. Two notifications, two workers, two connections of the client, every failure: a lost command or reply, the end of a listener, crash and restart of a worker. |
| `session_deployed` | Is what a committing service reports seen later, next to services that only flush? Are row locks released? | Yes. Three requests on two records, so that two contend and one watches. |
| `session_flushes` | Is what a flushing service reports seen later? | **No**: closing the session rolls it back. |
| `pool_timeouts` | Do requests that need two connections each get through a pool smaller than their number? Is every connection returned? | Yes, by the pool's timeout. Four requests, three connections. |
| `hooks_ledger` | Does a delivery's row agree with its POSTs through dispatch, redelivery, bulk retry, changes and deletion of webhooks? | Yes. Two webhooks, two deliveries, two attempts each, limits of one (given up at once) and two. |
| `limits_window` | Does the limit hold in every window, is nobody rejected while every window in force has room (an hourly limit of zero is no window), is Retry-After right? | Yes, for the window less the delay. Four requests of two tiers (limits 1 and 2 per minute, 2 and none per hour), six ticks: longer than the minute, as long as the hour; Redis fails and restarts. |
| `limits_restart` | Do requests pass unchecked only while Redis is down? | **No**: after a restart the cached hash names no script, and every request of the worker passes. |
| `auth_sessions` | What outlives a password change, can a refresh token be used twice, is an old password good for anything, do the row locks let everybody go on? | Only overlapping calls; yes to the last. Three calls, two devices: two changes can lock the two sessions in opposite orders, with a third call between them. |
| `services` | Do the rows of each service stay consistent over every sequence of its operations, and do its readers agree? | Yes, with the exceptions that section 5 lists and the properties name. |

### The services' run

The services share no state in the code and none in the models, so `MCServices` puts them side by side and lets a
behaviour exercise one, chosen in the beginning: TLC takes the sum of their state spaces. A service of independent
halves (wallet and subscriptions, templates and mail, ...) is chosen by its halves; `pipelines` has the defaults and
`sales` the deals, which never read them. What its properties say:

| Property | What could go wrong |
|---|---|
| `BillingConsistent` | plans changed, cancelled and reported by Stripe in any order: never two running subscriptions unless Stripe revives one, never an invoice settled twice, the wallet shows what was put in |
| `CrmConsistent` | a contact's score is the newest of its history; a deal's stage, reasons and dates agree after moves and patches; one default pipeline unless a generic update has set another |
| `CampaignsAccount` | each recipient of a campaign is sent, failed, blank, queued by the limit, or missed because an error ended the campaign midway; then its summary is never written, and its rows still tell what had gone out |
| `OutcomesStand` | opens and clicks never take a bounce, a complaint or a failure back |
| `OvershootBounded` | the limit is exceeded by at most the number of other requests at work |
| `OutreachOnce` | a post reaches its platform once, and once more per PATCH that takes it back; a listing is installed once, unless an uninstalled one is switched on |
| `OnePerPlace`, `AllOrNothing` | overlapping registrations, SSO logins, tenants and invitations: unique names, whole accounts, nothing left by an error before the commit (after it: an invitation, or a renamed workspace) |
| `IndexedIsComplete` | no document has points of two of its contents; what is marked as indexed has all chunks of its present content and what is not has none, unless its last update or deletion was cut short between the stores |
| `FilesFollowRows` | every asset's file is in the backend that the row names, unless a deletion was cut short between the stores |
| `MoreIsNotLess` | a better lead never has a lower score or a colder tier, unless its title is misread as an executive's or as that of a lead; then it loses at most 15 points |
| `ViewsAgree` | get, every page of a list, counts, summaries and searches show the same rows, or fail for the same rows, per service |

Where the code breaks the plain form of one of these, the property says exactly how far: a history field (`halved`,
`stale`, `missed`, `toggled`, `reopened`, `patched`, `defaulted`) marks the rows that took the path concerned, and
section 5 tells which path it is. So `FilesFollowRows` does not speak of an asset whose deletion was halved, nor
the second part of `IndexedIsComplete` of a document whose last call was cut short.

Bounds: two tenants (alike, hence the symmetry), two rows of each table that a list pages through, three where a third
changes what the newest is (installations, executions, notifications). Executions are one more than the limit of the
history's query (`HistoryLimit`), documents have three contents (`MaxVersions`): one indexed, one given and undone,
one more. `Tenancy` has three calls, the least for two that clash and one that undoes or reads between them; which of
the calls begins first makes no difference (`CallsBeginInOrder`). `EmailLimiter` has two requests of one worker, a
campaign of three recipients and a single mail, and a mail of another worker, with a limit of two in a window of two
ticks. Scoring has every combination of one title per group of keywords, with a junior title for each way to be
misread.

Deadlock is not checked where a system may stop: all clients gone and the worker shut down, all requests
answered, all bounds reached. `push_delivery` checks it.

**Fairness.** The event loop resumes every task whose await is over (weak fairness per task and per step).
A send to a dead transport ends because uvicorn's own ping closes it. A request in the pool is served or its
timeout expires. PostgreSQL notices deadlocks. Nothing is assumed of clients: no request, connection or message
has to come, and no failure has to happen. `WebhookDelivery` has no fairness, since nothing in the code calls the
retries (section 6), and the services' modules have none: their handlers run when a client calls.

**Assumptions that are constants.** `DistinctStamps` (no two requests of one key read the same microsecond),
`MaxDelay` (how late a check may come), `RedisMayFail`, `Restarts`, `SharedSession` (the tests' override),
`Committing` (which services commit). Bounds in guards: `MaxClock`, `MaxDelay`, `MaxDeliveries`, `MaxAttempts`,
`MaxConnects`, `Broadcasters`; requests, notifications, sockets and calls occur once each.

## 4. Proofs

All theorems hold for every value of the constants that satisfies the modules' named assumptions.

* `ConnectionManagerProofs`: type correctness, `PoolsAgree`, `RegisteredWhileServed`, `RoomEntriesBounded`,
  `AddressedOnly`, and that every step is a step or a stutter of `SocketLifecycle` (`ImplementsLifecycle`).
  `RegisteredWhileServed` is not inductive: a clean-up removes what a broadcast holds for stale, so the invariant
  must say that those sockets have lost their client (`StaleAreGone`) and have been opened (`OpenedOnly`), and a
  relaying endpoint must be in its loop when its error disconnects it (`RelaysAreServed`).
* `RequestSessionProofs`: `CommittersKeepTheirWord` for any mix of services, and `ReportsAreSeen` for services
  that all commit or a session that all share. The invariant follows one request's write from the session that
  sees it to the committed state.
* `ConnectionPoolProofs`: `Conserved`, by counting holders of one and of two connections; and
  `RoomyPoolNeverStalls`: with more connections than requests no timeout is needed.
* `WebhookDeliveryProofs`: types, numbering, no POST after success, truthful status, no orphans. The invariant
  speaks of one row and its own POSTs (`RowOK`); every handler makes such rows from such rows.
* `RateLimiterProofs`: `SlidingWindow`. What has left a sorted set, trimmed or expired, had left the window by the
  clock, so a request at most `MaxDelay` old finds all that matters to it. It needs distinct stamps: equal ones
  are one member of the sorted set. `RejectionsAreFounded` does not: what a check counts has been recorded, records
  stay, so a window that was full when the minute refused a request is full when its hour has been checked
  (`RefusalsAreFounded`). `RetryAfterIsHonest` is about the one step that refuses a request:
  Redis cuts the oldest member's stamp to whole seconds, the middleware rounds the time that is left of its window; the
  answer is less than a second and a half too little and at most a second too much.
* `AuthSessionsProofs`: types and the three safety properties. While a change runs, each old live session is
  among those found and not visited, or locked by the change (`Covered`); what has rotated a token has ended its
  session before anything that counts it as past began (`UsedUp`); the password is never one that a change has
  replaced (`Replaced`).
* `NotificationDeliveryProofs`: `ShownIsStored`, `OncePerPath`, `ListenersKeepOrder` and `LocalClientsServed`. The log
  of all that was published orders everything: what a listener holds lies in the log's order and after all that it has
  forwarded (`Ordered`), so that the next forward comes after the earlier ones. Once per path follows since the order is
  strict.
* `ServicesProofs`: the services, one chapter each, after the lemmas on pages and counts that they share (a page is a
  part of its table, pages lie one after the other, the rows that a filter counts are those that its pages show). TLC
  checked every property below on the instances of `services.cfg` before it was proved.

  | Chapter | Theorems | What the invariant adds, and why |
  |---|---|---|
  | Sending limit | `OvershootIsBounded` | what is recent is still in the worker's counter (`CountsKept`): stamps of one instant stay apart, and pruning takes only what has left the window; whoever passed the check found less than the limit |
  | Posts, installations | `OncePerTenant` | how often a post was taken is bounded by how often it was reopened, by its status (`PublishedAgain`) |
  | Knowledge | `IndexComplete` | every point is of a document that is there, in its tenant's collection, and a document's points are of one content (`Sound`); a row that no call has cut short has the points it says, and at least one where it says that it is indexed (`Holds`), without which an empty text would count as indexed |
  | Media | `FilesFollow` | names are counted up (`NamesCounted`), so that no deletion takes another row's file |
  | Contacts | `ScoreIsTheNewest` | the score is that of the last row of the history, which is of the contact's tenant (`ScoreIsLast`) |
  | Deals | `DealsStayConsistent` | one default where no update has set another (`Unrivalled`) |
  | Billing | `MoneyIsInTheBooks` | `settled` is the number of paid invoices (`BooksClose`), an invoice has its subscription's tenant (`InvoicesMatch`), and only Stripe writes a status that is neither running nor cancelled (`OursOrSynced`) |
  | Agents | `AgentViews` | one agent of a type per tenant, its counter is the number of its executions, and these have its tenant (`AgentsCount`); what the query shows is that number up to its limit |
  | Analytics | `AnalyticsViews` | one snapshot per event, of its hour (`SnapshotsFollow`); what a dashboard has written lags behind (`DataLags`) |
  | Flags | `FlagViews` | overrides are what was asked for |
  | Inbox | `InboxViews` | the types |
  | Lead score | `MoreOfALeadIsNotLess` | none: the score compared for every pair of leads, for the titles of the model; how far a misread title goes wrong is part of it |
  | E-mail | `RecipientsAreAccountedFor`, `OutcomesAreKept` | rows, blank addresses and those missed by an error make up the recipients of a campaign; a row has its campaign's tenant (`Accounted`, `Belong`) |
  | Outreach | `OutreachViews` | keywords are never deleted (`KeywordsStay`) |
  | Accounts | `PlacesAreUnique`, `CallsAreWhole` | below |
  | All services | `ServicesImplementEach`, `ServicesTyped`, `CrmStaysConsistent`, `ServicesViews` | every step of `MCServices` is a step of the service that was chosen and leaves the others alone; so `Spec` implements the specification of each, and its theorems carry over |

  *Accounts*, for any number of concurrent calls. A flush compares its rows with what is committed and what others
  hold; the invariant says that the comparison stays true until the commit (`PlacesKept`), which needs that a call
  never flushes into one table twice (`Planned`) and that a new version replaces a row that nobody else holds
  (`Versions`, `UpdatesOnly`). That accounts are whole needs the plan of each kind of call: what a call has flushed
  and what it has still to do make a whole account at every moment (`Brings`); a row that goes is replaced by a
  version of itself, or is a membership that `remove_user` takes (`Replaced`, `Deletes`), whose maker is over, so that
  no row can get its key again. That an error leaves nothing behind (`NothingLeftBehind`) has two halves: rows are
  committed with their maker's commit, which `PlacesKept` needs anyway, and a name other than "default" that no
  creation gave comes from an update that reached its commit. For this the plan of a call tells what it may name
  (`Named`): only updates rename, and only the workspace they were asked for. Both are part of `CallsAreWhole`.

Every invariant of a passing run has a theorem, and so have the action properties `RetryAfterIsClose`, `OutcomesStand` and
`MoreIsNotLess`. Only model-checked: what must happen at last (`BroadcastsEnd`, `LifecycleForgets`, `ListenersDeliver`,
`LocksAreReleased`, `RequestsEnd`, `CallsEnd`), which is out of the prover's reach.

## 5. Findings and deviations

Three runs end in a violation; `PROJECT.json` quotes the lines they contradict: `hub_listener`, `session_flushes`,
`limits_restart`. What else the code does that a reader may not expect, met while modelling; the models have it, and
properties that it touches are stated with it as an exception:

* Hub: the clean-up keeps the emptied set of a user (`core/websocket.py:336`), later disconnects skip it, and
  `active_users` (`:499`) counts users who are gone.
* Push: when Redis fails, the client connected to the sending worker gets nothing either
  (`core/notification_service.py:132` raises before `:138`).
* Webhooks: `update_webhook` sets a URL without the check of `create_webhook` (`services/webhooks.py:229`, `:153`);
  `_attempt_delivery` does not catch `httpx.InvalidURL`, which ends a dispatch (`:417`); the test event goes to all
  subscribers and not only to the webhook under test (`api/v1/webhooks.py:229`, `:218`); the detail of a delivery is
  found only for the newest (`:331`, `:320`); a redelivery takes webhook and delivery from the request and never
  compares them (`services/webhooks.py:485`); nothing reads `next_retry_at` (`:450`).
* Responses: several handlers answer with an error although the rows are there. Rows of knowledge documents, assets,
  messages of a conversation and invoices have the column `meta_data`; the response reads `metadata`, which is
  SQLAlchemy's `MetaData`. Lists, gets and changes of posts, the calendar, and those of marketing's tables put ORM
  rows into a `dict` response (`schemas/base.py:170`, `:187`), of which no JSON can be made. Only empty lists and "not
  found" come through, so what a list and a get have in common is where they fail; a change fails after its flush.
* Rate limiter: equal stamps count once (`core/middleware.py:172`; `DistinctStamps`, so nothing below speaks of them);
  an hourly limit of zero is skipped (`:268`), while one per minute rejects everything, and `:31` says that zero means
  unlimited; Retry-After is cut to whole seconds (`:288`); requests are counted by
  address and not by tenant, because the limiter runs before the tenant is known (`main.py:152`, `:159`).
* Accounts: a refresh or login that overlaps a password change leaves a live session, although
  `services/auth.py:372` says "Revoke all existing sessions (force re-login on all devices)";
  `OnlyOverlapsOutlive` states what holds. `refresh_token` selects the session and revokes it by id, so two
  overlapping refreshes both succeed (`:230`, `:242`); neither it nor SSO login asks whether the account is active.
* Tenancy: overlapping check-then-insert ends in a 500 instead of a 409; the slug of a workspace is renamed unchecked;
  two renames to each other's slug deadlock, and one ends with an error; the refresh after the commit may fail
  (`services/tenant.py:145`, and that of an invitation), and the client sees an error for a rename or an invitation
  that is stored; `remove_user` removes the first role only; no operation accepts an invitation.
* Billing: `cancel_at_period_end` never ends; `invoice.paid` and `payment_succeeded` each settle the newest pending
  invoice, whichever Stripe means; `dunning_process` and the invoice responses read `metadata`, which on a row is
  SQLAlchemy's `MetaData`, and fail; the usage of a named subscription is not compared with the tenant.
* E-mail: a template that is missing or cannot be rendered ends a bulk mail in the middle of its loop
  (`services/email_service.py:744`, `:745`), after the campaign was flushed (`:731`) and mails have gone out, and
  before its numbers are written (`:782`); bounces and complaints with a provider's payload raise (`:956`, `:1001`);
  `track_open` returns an image's bytes where the response is a string; a late 'delivered' takes a bounce back
  (`:1031`), which `OutcomesStand` leaves open; deleted templates can still be used; scheduled campaigns go out at
  once; a campaign's numbers are summed up once and never see later events; mails queued by the limit are never sent;
  `dict(message.metadata)` fails for rows that were loaded from the database.
* CRM: when the requested PAGE of a full-text search is empty, the search falls back to substrings, so that a page
  after the last shows rows of another search; generic updates set stage and default without what `move_deal_stage`
  and `create_pipeline` do besides.
* Outreach: a PATCH takes "published" back, and the post is published again; the `try` of `publish_post`
  (`services/social.py:218-241`) spans the call of the platform and the flush, so a flush that fails after the
  platform has taken the post tries to store "failed" for what is out; switching an uninstalled installation on makes
  a second one; get, update and delete of marketing's tables pass no tenant.
* Knowledge: indexing puts the row's `metadata` into the points (`services/knowledge_service.py:529`), which is
  SQLAlchemy's `MetaData` for every row but one whose metadata the same call has set: uploads, the index handler, the
  Celery task and reindexing always fail, and only a PATCH with content and metadata indexes. Points are written at
  once and rows with the commit: the flush after an upsert may fail (`:541` after `:535`), as may that of a deletion
  whose points are gone (`:690` after `:687`), which leaves an indexed row without points; a failed PATCH keeps
  `is_indexed` while the points are gone. Removing points scrolls over at most 10000; the document count counts
  deleted ones, and reindexing picks them up again.
* Agents: a conversation with messages cannot be shown; the history shows no more than its query's limit
  (`core/agent_orchestrator.py:627`) while the counter goes on; `message_count` counts answers only; an execution
  within a conversation adds an answer without its question; two first uses at once would make two agents.
* Analytics: showing a dashboard writes its data; a window that is not on the hour misses events; `update_widget`
  changes the JSON in place, which is never written; campaign and funnel analytics are constants.
* Media: the presigned URL of a MinIO asset is asked for with a number of seconds where a timedelta is due
  (`services/media.py:288-292`) and raises; without a MinIO client the download of a MinIO asset redirects to itself;
  deletion of several assets is never reached, its path being taken by that of one (`DELETE /media/batch`, a 422); an
  upload whose row fails leaves its file and a deletion whose flush fails loses it; thumbnails are never removed.
* Notifications: a row may have no workspace (`models/notifications.py:31`), and the second service never gives it one;
  "mark all as read" within a workspace passes such rows over; the service of `core` shows deleted rows, the second one
  does not; `mark_all_read` of the second raises.
* Lead scoring: keywords are searched for within the title. "director" contains "cto" and "vice president" contains
  "president", so both score as executives; so do "contractor", "doctor", "inspector" and "product owner", and a "lead
  generation intern" scores as a lead. Such a lead may lose points by a promotion, a contractor who becomes manager
  for one.
* Frontend hook (used by no component): it closes a connection whose ping is not answered by `pong`
  (`use-notifications.ts:146`, `:186`), while the endpoint answers `heartbeat_ack` (`api/v1/ws.py:143`).

## 6. Not modelled, and why

* The Celery tasks for delivery, indexing and e-mail import modules that do not exist; no worker can run them, and
  `retry_failed_deliveries` and `cleanup_stale_webhooks` have no caller, so nothing can be promised about them.
  The same holds of `dunning_process`, which raises for every invoice, and of services without a caller.
* Contents of messages, rows and responses; sorting other than by age; tokens, signatures and hashes; provider
  protocols; text extraction, embeddings and ranking; metrics, logs and headers; everything under deployment,
  infrastructure and migrations.
* Concurrent requests of one service other than accounts, sessions and the e-mail limit: those
  services do not commit in deployment, so that what two of their requests could do to each other ends with a
  rollback. `RequestSession` has that.
* Several sockets of one client across workers: `ConnectionManager` has the sockets of one worker,
  `NotificationDelivery` the workers of one socket.
* The frontend: its notification hook is used by no component, and its stores make one call at a time.
* Constants instead of computations: campaign and funnel analytics, simulated social analytics and site audits;
  and thin clients of other systems (workflows over n8n, prompts of the AI service, SSO protocols).

## 7. What could come next

1. The composition of `RequestSession` with one of the flushing services, when those begin to commit: then
   two requests of one service can interleave, and the check-then-insert of `Agents` (two agents of a type), `Deals` (two
   default pipelines) and `Billing` (two running subscriptions) becomes what `Tenancy` is about.
2. The chunking of texts as a function, against a reference over bounded texts; it is a constant number of chunks here.
3. The frontend hook next to `NotificationDelivery`, once a page uses it and both speak one protocol.
