# Verification of the purchase-order platform

TLA+ models of the server in `src/app`, the runs that model-check them with TLC and the
theorems TLAPS proves about them. `PROJECT.json` lists every run, mutant, finding, hazard and
theorem, and maps each definition to the lines it translates.

## The system

A FastAPI application over PostgreSQL (SQLAlchemy 2 async, one session per request) with Celery
workers beside it.

| Component | State | Operations | Interacts with |
|---|---|---|---|
| Purchase orders (`services/purchase_order_service.py`) | `purchase_orders`, `po_line_items` | create (number, totals, lines), submit, approve, reject, cancel: only the transition table is consulted | same rows as the approval engine |
| Approval engine (`services/approval_service.py`) | `purchase_orders`, `approval_steps` | submit, approve, reject, cancel with role, owner and limit checks | writes the audit trail in the same transaction |
| Audit trail (`services/audit_service.py`) | `audit_logs` | `log`, `log_po_transition` | called by the approval engine only |
| Unit of work (`core/database.py` `get_db`, `main.py`) | one transaction per request | commit after the handler, rollback on any exception; the handlers of `main.py` answer | every request |
| Budgets (`services/budget_service.py`) | `budgets` | check, commit, release, mark spent | its caller's session; no route calls it yet |
| Vendor directory (`services/vendor_service.py`) | `vendors` | create, update, activate, deactivate | orders refer to vendors by foreign key |
| Purge (`workers/tasks.py`, `beat_schedule.py`) | `purchase_orders`, `vendors` | weekly DELETE of rows soft-deleted long ago | every request on those rows |
| Other Celery tasks (`workers/tasks.py`, `celery_app.py`, `ai/po_analyst.py`) | messages at the broker, results, `approval_steps` | e-mail with retries, AI analysis, hourly sweep of overdue steps | Beat starts the sweep; nothing enqueues the other two |
| Schema and seed (`migrations`, `scripts/seed.py`, `create_db_tables`) | the catalogue, the first rows | create_all, upgrade, downgrade, seed | every server process runs create_all when it starts |
| Connection pool (`core/database.py` `engine`, `routes/health.py`) | connections of each process | check out, return, ping, replace | every request, and the readiness probe |
| Users, authentication (`routes/users.py`, `services/auth_service.py`, `core/security.py`, `api/deps.py`) | `users`, signed tokens | create user, login, refresh, current user | gives every request its user |
| Event bus, aggregate roots | handler lists in memory | subscribe, publish, pull | used by tests only |
| Middlewares, configuration, schemas | | | |

What is hard here is overlap. Uvicorn runs several processes and each event loop switches between
requests at every awaited statement, so a request is a sequence of statements with other
requests between them. At READ COMMITTED nothing but row locks, foreign keys and UNIQUE
constraints orders them. A handler decides on what its SELECT returned and writes later; a
transaction may be rolled back between two flushes, or committed with the acknowledgement lost.
Around the requests, workers die with the messages they hold, PostgreSQL is restarted under the
pools, and several processes create the same tables at the same time.

What makes each component correct:

- orders: the row is explained by what was asked for; a change that breaks the table needs a
  stale read; nobody waits for ever;
- creation: an order is there with its lines or not at all, under a number of its own; columns
  that are rounded one by one still tally; the answer shows what is stored;
- approvals: a decision, its status and its audit row are one; its author was entitled to it;
  the answer tells the truth;
- budgets: amounts balance; nothing is promised twice; amounts stay within their bounds;
- users: e-mails and usernames are unique; tokens come from logins; a deactivation is not undone
  by a request under way and is final once the tokens signed before it have expired;
- vendors and purge: codes are unique; nothing refers to a row that is gone; only old rows go,
  and they do go;
- tasks: none is forgotten when a worker dies, none is done more often than the code admits, and
  a sweep undoes no decision;
- deployment: nobody serves without tables, a seed is all or nothing;
- pool: connections are neither lost nor counted twice, and a restart of PostgreSQL fails only the
  requests that it hits.

## Modules

| Module | Models | State and how it corresponds to the code |
|---|---|---|
| `POStatus` | statuses, `VALID_TRANSITIONS`, roles, the four operations | constants only |
| `OrderLifecycle` | abstract: what overlapping requests leave of the life cycle of an order | `status`, `past` |
| `TaskOutcomes` | abstract: what a caller of `delay` can rely on | `result`, `mails`; `upset`, the tasks whose worker has died with them; `unsettled`, those with a failure that a retry will replace |
| `OrderWorkflow` | both order routers, the approval engine, the audit trail, `get_db` | `order`, `steps`, `audit` are the committed rows; `tx[r]` what request `r` has flushed; `lock` the row lock of an order; `pc`, `call`, `resp` the request; `seen`, `past` and `blind` (the orders of which a request has replaced a status it had not read) are history |
| `OrderCreation` | POST /purchase-orders: number, totals, lines, and the answer | `order`, `lines` are the committed rows; `tx[r]` what request `r` has flushed; `basket`, `number`, `body` what it was asked for, drew and is about to answer |
| `BudgetLedger` | `BudgetService` on one budget | `budget` is the committed row; `inst` and `cols` a session's instance and the columns it flushed; `version`, `base`, `booked`, `ledger`, `overlap` are history |
| `VendorDirectory` | vendor requests, the purge, and what happens to the rows elsewhere | `vendor`, `order` are the committed rows; `lock` row locks; `pc`, `call`, `resp` the requests; `task`, `doomed` the purge and its uncommitted DELETEs |
| `UserDirectory` | creation of users, login, refresh, the checks of the current user | `user` is the committed rows; `lock` row locks; `pc`, `call`, `who`, `minted`, `resp` the requests; `held` the time left of the tokens clients have; `since` is history |
| `BackgroundTasks` | the notification, the analysis and the sweep under Celery | `queue` is the broker, `work` the message each worker holds and how far it is (its retry published, its retry stored and its end included), `result` the result backend, `mails` what the mail server took; `step`, `lock` the approval steps; `late`, `upset` are history. It implements `TaskOutcomes` |
| `Deployment` | create_all of every server process, alembic, the seed | `schema`, `rows` are committed, `ddl` and `pending` are not; `pc`, `seen`, `at`, `missing` where each process is and what it found; `dropped` is history |
| `ConnectionPool` | the engine's pool in every process, and get_db around it | `out`, `idle`, `stale` are a pool; `st`, `at`, `wanted` the requests, `holder` the row locks; `hit` is history |
| `MC*` | the instances TLC checks | |
| `*_proofs` | the theorems | |

In `OrderWorkflow` an action is a statement with the Python that follows it up to the next
await: `Load` or `Refuse` (the SELECT and every check), `AddStep`, `Update`, `Log`, `Commit`,
and `Insert` for the create. `Fault` is any failure before the commit; `CommitUnacknowledged` a
commit the client never hears of. The UPDATE waits for the row lock and then applies to the row
as committed by then, because it sets columns by primary key. The INSERT of an approval step
takes only a key-share lock on its order, which no status UPDATE conflicts with, so it does not
wait. `AuditLogColumns` gives each request the class `AuditLog` of the process that serves it:
`MappedAttributes` is the class as it stands, which makes `AuditLog(request_id=...)` raise
(`LogTypeError`), `MigratedColumns` adds the column the first migration creates and shows what the
approvals router does once it can run. Role, limit and activity of the users are constants: what the
checks of a request carry to its commit is modelled, a change of its user meanwhile is not.

In `BudgetLedger` a call computes from what its SELECT returns or, while the caller still holds
an instance of the same session, from that instance: SQLAlchemy's identity map is weak, so
`Current` is a set. Only columns whose value changed are flushed, as absolute values.

In `VendorDirectory` soft deletion, the passing of days, and new orders are actions of their
own, since they come from elsewhere (nothing under `src/` sets `is_deleted`). `StepsKept` says
whether approval steps exist at all: as built they never survive their transaction, and an order
with a step could not be purged. `Fault` and `CleanupFault` are a process that dies, or a database
that is lost, between two statements.

In `UserDirectory` a slot serves one request after another, so runs are unbounded in length. A token
is the time it has left, which `Tick` takes from all of them alike; signing follows the SELECT of
the row with nothing awaited between them, so no tick separates the two. A password is a secret
and whether it comes with blanks around it, because `hash_password` strips them and
`verify_password` does not. `Unhashable` says when `hash_password` raises: it looks for an empty
password before it strips, so one of blanks only is hashed as the empty one. `SetActive` is an administrator's statement in the database: no
route sets `is_active`. The foreign key of the department is left out, and so are the routes that
only read. `HasEmail` compares e-mails as the column does.

In `OrderCreation` amounts are integers: a quantity is counted in `QuantityUnit`-ths of a thousandth
and a price in `PriceUnit`-ths of a cent, so that the decimals of a request are exact and only a
`Numeric` column rounds (`Rounded`, half away from zero). An order is looked for among the committed
ones before its number is used, the second number is not, and the INSERT waits for uncommitted
orders of the same number (`Pending`). The body of the 201 is made of the instances: the order is
refreshed by its repository, its lines are not. What happens to an order afterwards is
`OrderWorkflow`'s, its foreign keys are `VendorDirectory`'s.

In `BackgroundTasks` a message is a task with the retries it has behind it. `self.retry` publishes
the next message (`Retry`, stage `published`), Celery then stores the state of the retry
(`StoreRetry`, stage `retried`), and only then does the child report and its parent acknowledge
the message (`Ack`). Late acknowledgement puts the message back if the worker goes with its container
(`Die`, at any stage). If only the child is killed, at any stage too, the parent acknowledges the
message and stores a failure (`LoseChild`): between the publication of a retry and the report, that
is a failure of a task whose retry waits. `TaskOutcomes` says so: `Misreport` stores it and makes the task
`unsettled`, and a later `Begin` settles it. Other failures are final, unless the worker has died
with the task (`upset`). Storing a state never replaces a success (`Stored`). Who
calls `delay`, and who leaves an approval step pending, is the environment (`Enqueue`, `Elsewhere`),
since nothing under `src/` does.

What that module takes for granted, or leaves out:

- a retry counts down for 60 or 30 seconds (`default_retry_delay`), and its predecessor is
  acknowledged or found dead before that is over (the last guard of `Take`); delays are left out otherwise;
- the parent of a lost child acknowledges and stores the failure in one step;
- a retry can be published: a broker that is away at that moment is left out;
- Redis loses and repeats nothing of its own: its visibility timeout is left out, and so are the evictions
  of `allkeys-lru` (`docker-compose.yml:26`), which may take any queue or result once 256 MB are
  full. `NotForgotten` and `EveryTaskEnds` do not hold of a message that is evicted.

In `Deployment` altering the schema is one transaction, because PostgreSQL's DDL is transactional;
a table of the same name makes the other creator wait and then fail. Tables are represented by their
foreign keys, which say in which orders they can be created and dropped, and by whoever created
them: `Enum(UserRole)` in the models names its labels after the members, the migration after the
values. A victim of a deadlock with a DROP TABLE is a `Lose`. uvicorn does not replace a worker
process that fails to start, so a server that clashes is `dead` until the container is restarted.
Apart from this module, the models take the schema that `create_all` makes.

In `ConnectionPool` a request holds one connection from its first statement to the end of get_db,
while it waits for a row lock too. A ping that fails makes the pool replace all it kept. The
readiness probe is a request that updates no row; its check of Redis is left out.

Left out of the models: reads that answer a client and change nothing; columns no property
tells apart; soft deletion in `OrderWorkflow` (an order that is soft-deleted is a 404 there); the user of a
request changing while it runs.

## Runs

| Run | Checks | Instance, and why it is enough |
|---|---|---|
| `orders` | `TypeOK`, `PastExplainsRow`, `PendingUpdateIsCurrent`, `IllegalOnlyWhenStale`, `ImplementsLifecycle`, `EveryRequestIsAnswered`, `AnswerMatchesDatabase`, `DecisionAndAuditTogether`, `StepsExplainStatus`, `DecisionsByEntitledUsers` | one order (a request touches one), two users (a requester and an approver, who may own orders too), two amounts, one on each side of his limit, three requests of any kind, one of which may fail. One is served by the class as it stands, two by the mapped column, so that each pair of kinds overlaps. No symmetry, for a property is about liveness. Two requests make a race, the third comes after or between them. Texts: empty and not, for the two services treat the empty reason differently |
| `order_creation` | `TypeOK`, `NumbersAreUnique`, `OrdersComeWhole`, `AmountsTally`, `LinesExplainSubtotal`, `AnswersMatchRows` | three requests, one of which may fail, and two numbers, so that first and second draws collide with committed and uncommitted orders. The nine baskets of `MCOrderCreation` sit on the edges: amounts that round up and down, lines that each round to nothing, a discount that leaves less than nothing, a quantity that is stored as 0, two lines of one number, a total too wide for its column (`AmountLimit` makes the columns small) |
| `budget_sessions` | `TypeOK`, `CommittedWithinTotal`, `BalancedUnlessOverlapped`, `EveryFlushReturns` | two sessions of up to three calls (`MaxCalls`), amounts 1 and 2, total 3: refusals, exact fits, clamping at zero and lost updates all occur |
| `vendor_requests` | `CodesAreUnique`, `NothingDangles`, `OnlyOldRowsArePurged`, `PurgedUnlessBlocked` | two vendors, two codes, one order, three requests: two creates race for a code while an update races with the purge |
| `user_accounts` | `AccountsAreUnique`, `DeactivationSticks`, `HoldersHaveLoggedIn`, `OnlyAdminsCreate` | three users, one of them seeded, two slots that may fail: two creations race for an e-mail or a username, a login races with a deactivation. Access tokens last one tick, refresh tokens two, so that one expires before the other; a right password and an empty one, which cannot be hashed; none too long (`TooLong`) and none with blanks around it (`Padded`): padded ones only make more logins fail, one of blanks only is one more password that can be hashed |
| `background_tasks` | `TypeOK`, `NotForgotten`, `MailsAreAccountedFor`, `DecisionsStand`, `ImplementsOutcomes`, `EveryTaskEnds` | two workers, one of them with credentials, one task (`MaxCalls`, a notification or an analysis) and the sweep (`MaxBeats`) on one step, one death (`MaxDeaths`): all retries run out, a death meets each of them, a child is killed at every stage, before and after its retry is stored included, and a decision meets a sweep |
| `deployment_startup` | `TypeOK`, `TablesAreThere`, `SeedsAreWhole` | two servers, two seeds, an upgrade and a downgrade, one lost connection (`MaxFaults`) and one restart (`MaxRestarts`): every pair of processes races to create, and a seed meets another one and a downgrade |
| `connection_pool` | `ConnectionsAreAccountedFor`, `OnlyOutagesFail`, `EveryRequestEnds` | three requests, two processes of two connections each, one of which the pool keeps, and one row: two requests that want the row exhaust a pool for the third; one restart of PostgreSQL (`MaxOutages`) and of a process (`MaxKills`) |
| `overlapping_requests` | refutes `StatusFollowsTable` | two requests |
| `approvals_router` | refutes `NoServerError` | one request, the class as it stands |
| `deleted_codes` | refutes `DeletedCodesAreFree` | two creates, one code, no fault |
| `seed_after_migration` | refutes `SeedSucceedsAfterUpgrade` | one upgrade, one seed, no fault |

The bounds: a request runs once (in `UserDirectory` a slot runs any number of them), and the sets
of rows, requests, sessions, workers and processes are finite; `MaxCalls` of `BudgetLedger` bounds
the calls of a session, `AccessLife` and `RefreshLife` the tokens, and `since` stops at
`RefreshLife`. `MaxCalls`, `MaxBeats` and `MaxDeaths` of `BackgroundTasks` bound the tasks that are
enqueued, the sweeps that wait and the workers that die; `MaxFaults` and `MaxRestarts` the faults
and restarts of `Deployment`; `MaxOutages` and `MaxKills` those of `ConnectionPool`. Nothing else is
bounded. Every passing property has a mutant: the definition of the model changed the way a plausible bug would change the code, which
the run then detects.

What the refuted properties show:

- `StatusFollowsTable`: approve and reject both read `pending_approval`; the second UPDATE turns
  `rejected` into `approved`. The table holds for requests that do not overlap
  (`IllegalOnlyWhenStale`), and what is left when they do is `OrderLifecycle`.
- `NoServerError`: every approvals request that passes its checks fails in `AuditService.log`.
- `DeletedCodesAreFree`: `VendorRepository.get_by_code` looks for live vendors only, so that, as its
  docstring says, a soft-deleted one does not block a new one with its code. `vendor_code` is
  UNIQUE over all rows, so the deleted one still blocks it, with a 500 where there was a 409, until
  the purge takes its row. `CodesAreUnique` holds of soft-deleted rows too for the same reason.
- `SeedSucceedsAfterUpgrade`: on a database that alembic has upgraded, the INSERT of the seeded
  users is refused for its role, and so would be every other write of an enum by the models. On a
  database whose tables create_all made, the seed succeeds.

Seen while modelling, and needing no interleaving to see:

- two overlapping reservations of a budget both succeed and one is lost, and what has been spent
  can be reserved again: `CommittedWithinTotal` holds, and says only that the column stays in its bounds;
- `hash_password` strips the blanks around a password and `verify_password` does not, so who chooses
  such a password is refused with it; one of blanks only passes the look for an empty password, and
  is hashed as the empty one;
- one row that a foreign key protects stops the purge of all rows, week after week
  (`PurgedUnlessBlocked` has this as its condition);
- `cancel` reports the status it reads after its own UPDATE has synchronised the instance, so its
  audit row says `cancelled` to `cancelled`; `DecisionAndAuditTogether` says so, and that every
  other audit row gives the status its request had read;
- approve and reject that overlap leave two steps with `is_current` set, of which one at most
  explains the status: `StepsExplainStatus` holds of an order until a request replaces a status it had not read;
- only the approval engine writes the audit trail: what the other router changes leaves no audit row;
- `process_ai_po_analysis` is said to update the order and writes nothing;
- if two servers are started while a migration commits between their look at the catalogue and
  their CREATE TABLE, both die; the healthcheck of the container restarts nothing by itself.

## Fairness

- `OrderWorkflow`: weak fairness of each request's own steps. The event loop resumes a coroutine
  whose statement has returned, and a statement returns when its lock is free. Nothing makes a
  client send a request or a fault happen. Weak fairness is enough because each request runs once,
  so a lock is contended finitely often.
- `BudgetLedger`: weak fairness of flushes and of the commit of a session, which its caller
  reaches in the end.
- `VendorDirectory`: the same for requests; Beat starts the task for ever (`beat_schedule.py`), so
  its first statement is weakly fair, and its second and its commit strongly: a worker that may
  die between statements does not die every time. Days pass. Nothing makes an administrator delete
  anything.
- `BackgroundTasks`: weak fairness of attempts, of sweeps and of the commit of a decision: a mail
  server or a provider answers or drops the connection, a statement returns. (smtplib is opened
  without a timeout: a server that says nothing would keep its worker for ever, and nothing could be
  said of it.) Strong fairness of the delivery of each task's messages, since workers are sometimes
  busy and the broker hands messages out in their turn. Nothing makes a worker die or Beat start.
- `ConnectionPool`: weak fairness of checking out (it succeeds, fails or times out) and of the end of
  a handler that waits for nothing; strong fairness of a row lock, which PostgreSQL grants in the
  order of the requests for it. Nothing makes a request arrive, or PostgreSQL come back.
- `OrderCreation`, `Deployment`, `UserDirectory`: none is assumed, and no liveness property is stated.

## Proofs

All for every value of the constants, from the named assumptions of the modules (domains
of the parameters, `None` outside them). Each module states its inductive invariant as
`Inductive`, a conjunction of named parts which TLC also checked on the instances above before
it was proved.

- `OrderWorkflow_proofs`: `TypeOK`, `PastExplainsRow`, `PendingUpdateIsCurrent`,
  `IllegalOnlyWhenStale` and the refinement of `OrderLifecycle`. None of them is inductive by
  itself: that a commit writes a status the past explains needs to know that the request decided on a status
  the order has had (`DecidedOnAPastStatus`); that its row is current needs the row lock
  (`PendingUpdateLocked`); that a create does not overwrite an order needs
  `PendingCreateInvisible` and `CreatesAreDistinct`. There is one lemma per action. The
  refinement maps every commit to `Born` or `Move` and every other step to a stutter. A second
  invariant, `Recorded`, rests on the first and gives `AnswerMatchesDatabase`,
  `DecisionAndAuditTogether` and `DecisionsByEntitledUsers`: what a request has flushed fits what it
  was asked for, as far as it got (`WritesFit`), rows are the records of requests that have ended
  (`RowsAreRecords`), and who is about to decide is entitled to (`DeciderIsEntitled`), which a commit
  of another request cannot change, because no UPDATE touches owner or total (`OwnersStay`). What an audit row gives as the old
  status is `ReportedStatus`. `StepsExplainStatus` is inductive relative to both invariants: a
  commit that adds a second step to an order has read `pending_approval`, so either the order still
  has that status, and the steps of an order with a step do not allow it, or the commit is blind
  (`AfterADecision`, `PersistKeepsStory`).
- `BudgetLedger_proofs`: `TypeOK`, `CommittedWithinTotal`, `BalancedUnlessOverlapped`. The balance needs to
  relate each instance to the row it was loaded from (`InstanceTracksRow`), and unchanged columns to calls
  that moved nothing (`UnchangedIsUnmoved`).
- `VendorDirectory_proofs`: `TypeOK`, `CodesAreUnique`, `NothingDangles`,
  `OnlyOldRowsArePurged`. Uniqueness needs that an uncommitted INSERT has its code to itself
  (`CodeReserved`); that nothing dangles needs the row locks (`RowsLocked`) and that the purge
  takes every order of a vendor it takes (`DoomedTogether`).
- `UserDirectory_proofs`: `TypeOK`, `AccountsAreUnique`, `DeactivationSticks`,
  `HoldersHaveLoggedIn`, `OnlyAdminsCreate`. Uniqueness needs that an uncommitted INSERT has its
  e-mail and its username to itself (`NamesReserved`) and that two creations never share a key
  (`CreationsApart`, which also keeps the role of whoever asked); `HoldersHaveLoggedIn` needs
  that a refresh works on a row that has logged in (`SessionsHaveRows`). Deactivation is
  inductive once the tokens of requests under way are part of it. `OnlyAdminsCreate` is proved
  of each step from the invariant: the only rows that appear are those of ready creations.
- `OrderCreation_proofs`: `TypeOK`, `NumbersAreUnique`, `OrdersComeWhole`, `AmountsTally`,
  `LinesExplainSubtotal`, `AnswersMatchRows`. That three rounded columns tally is arithmetic (`RoundedNear`, `TotalsTally`):
  each is half a cent from the exact number at most. Uniqueness needs `NumberReserved`, the rest
  `FlushedAsAsked` and `TotalChecked`. `LinesExplainSubtotal` sums over the lines of a basket and
  over their rows, so it is an induction over data, and the induction theorems of the library
  cannot be instantiated here. It is made by hand instead: a set of naturals without a least
  element is empty (`LeastNatural`, from the well-foundedness of the naturals), hence a set of
  numbers that has 0 and every successor has them all (`InductiveSet`), which gives what a sum over
  a set is when one element is removed (`SetSumRemoves`). The rest needs `LinesChecked`, that the
  lines of a committed order have distinct numbers: the rows are a set, and without the UNIQUE of
  the lines two equal ones would be one.
- `BackgroundTasks_proofs`: `TypeOK`, `NotForgotten`, `MailsAreAccountedFor`, `DecisionsStand`. The
  count of e-mails needs that, until a worker dies with it, a task is in one place only and each
  late error has cost it a retry (`OneChain`); `NotForgotten` needs that a published retry waits as
  long as its predecessor is held (`RetriesWait`), which a child killed in between then leaves behind; `DecisionsStand` needs `LocksFit`. The refinement of
  `TaskOutcomes` needs `PlacesFit` besides: as long as no worker has died with it, a task waits in one
  message or is in the hands of one worker, or both while the worker that has published the message
  has not reported, and its result says which (`InOnePlace`). Taking a message maps to `Begin`; the end of an
  attempt, the storing of a retry and the loss of a child to `Conclude`, the loss of a child
  whose retry waits to `Misreport`, a death to `Upset`; there is one lemma per action, and publishing a
  retry, acknowledging and the sweep, which nobody asks for, stutter.
- `Deployment_proofs`: `TypeOK`, `TablesAreThere`, `SeedsAreWhole`, and `MigrationApplies`, that the
  order in which the migration creates its tables satisfies their foreign keys. The strengthening is
  in the module of the proofs: one process alters at a time (`OneAlters`), what was seen stays unless dropped
  (`SeenStay`), a seed has inserted what it missed and nobody else has (`PendingIsOwn`, `SeedsProgress`).
- `ConnectionPool_proofs`: `ConnectionsAreAccountedFor`, `OnlyOutagesFail`, for pools of any size. A
  lemma for each way the users of a pool change (`UserJoins`, `UserLeaves`) carries the count; the
  outage needs that whoever waits during one is hit (`WaitersAreHit`).

`TypeOK` of `VendorDirectory` and `UserDirectory` is part of their invariants and proved with
them; their runs spend their time on the other properties.

Only model-checked: the liveness properties (`EveryRequestIsAnswered`, `EveryFlushReturns`, `PurgedUnlessBlocked`,
`EveryTaskEnds`, `EveryRequestEnds`), which are out of the prover's reach.

## Plan

Done, in this order, the status of an order being the heart of the system: `POStatus`,
`OrderLifecycle`, `OrderWorkflow`, `BudgetLedger`, `VendorDirectory`, `UserDirectory`, and then
`OrderCreation`, `BackgroundTasks`, `Deployment`, `ConnectionPool`, and `TaskOutcomes` with the
refinement of it.

Next, in this order:

1. `OrderWorkflow` with users whose role, limit and activity change while requests run.
2. A composition of orders and budgets, reserving at submission as the docstrings of
   `BudgetService` describe, once a route does so.

## Not modelled

- Middlewares, configuration, logging: configuration of libraries, without a state of the program's own.
- Schemas: validation of shapes; what they let through is the set of calls of each module.
- The event bus and the aggregate roots: nothing under `src/app` subscribes or publishes, so there
  are no steps to interleave; its tests cover what it does in sequence.
- The text of an AI answer, and what a provider does.
- List and detail endpoints, which read and answer.
- The copies in `_legacy_root_files`, which nothing imports.
