# t360s: specifications, model checks and proofs

The repository (`src/`) is three NestJS services: **orders** and **inventory**, each with
its Postgres database, and **audit**, with MongoDB. This directory holds TLA+
specifications of the parts whose correctness depends on order, concurrency or
failure, the TLC configurations that check them on small instances, and proofs
checked by TLAPS for instances of any size. `PROJECT.json` lists the components,
the runs, the source lines each definition stands for, the hazards and the findings.
Paths below are relative to `src/`.

    tlc -workers 2 -config Inventory.cfg MCInventory     # one run
    tlapm Inventory_proofs.tla                           # one module's proofs

## 1. The system

| Component | State | Operations | Modelled by |
|---|---|---|---|
| inventory: stock and reservations (`apps/inventory/src/inventory/inventory.{service,repository}.ts`) | `stock_items(quantity, reserved)`, `reservations(status, items, expiresAt, processedEventId)` | `reserve`, `commit`, `release` (RPC), `PUT /stock/:productId`, `GET /stock` | StockLedger, Inventory |
| inventory: reaper (`reservation-reaper.service.ts`) | the batch of a tick | `reap`, a `@Cron` every minute | Inventory, AuditTrail |
| orders: circuit breaker (`apps/orders/src/orders/inventory-circuit-breaker.ts`) | `state`, `consecutiveFailures`, `openedAt`, `trialInFlight`, in memory | `execute`: `admit`, `onSuccess`, `onFailure` | CircuitBreaker |
| orders: outbox (`outbox.repository.ts`, `outbox-poller.service.ts`, `outbox-purge.service.ts`) | `outbox_events(status, attempts, nextAttemptAt)`, the poller's `running` | insert, a `@Interval` tick (claim, attempt, send, mark), daily purge | Delivery, Outbox |
| orders: life cycle (`orders.service.ts`, `orders.repository.ts`) | `orders(status)` | `createOrder` (reserve first, then the row), release of an orphan, `updateStatus` | OrderSaga, AuditTrail |
| audit (`apps/audit/src/audit/`) | audit logs, unique by `eventId` | `createLog`, `createInventoryLog`, queries | AuditTrail, Outbox (as the peer) |
| fixture users and login (`users-seeder.service.ts`, `users.service.ts`, `auth.service.ts`) | `users`, unique by `email` | `onApplicationBootstrap`, `login` | UsersSeeder |
| guards, configuration, logging, health, bootstrap | none | predicates, wiring | not modelled |

How they interact:

- `POST /orders` calls `inventory.reserve` over TCP, through the breaker, and creates
  the order only after a positive answer. On a timeout or transport failure it
  answers 503 and sends one best-effort `release`, for the reservation that may
  exist all the same (the *orphan*).
- `PUT /orders/:id/status` locks the order's row, checks `VALID_TRANSITIONS` and writes,
  in the same transaction, the outbox rows: one for audit and, on CONFIRMED or
  CANCELLED, a commit or release for inventory.
- The poller of each replica of orders sends due rows with `send()`, one after the
  other, and marks each sent, or to be tried again, or failed. Peers are expected to
  ignore an `eventId` they know.
- Inventory finalizes a reservation under its row lock. The reaper releases what
  outlives its TTL, and races the commits and releases above.
- After each of these transactions inventory emits an event to audit, once and without
  waiting; the outbox delivers the status changes of orders to audit at least once.
- Each replica of orders creates the fixture users that are missing before it listens.

What is hard about it: row locks of several products taken one statement at a time;
TypeORM's `save`, which is a read followed by a write; stale copies (the reaper's batch, the
poller's rows, `upsertStock`'s entity); requests handled after the caller stopped waiting;
replicas that claim the same outbox row; calls of the breaker that end in another
state than they began in; crashes between a remote effect and the local record of it.
`PROJECT.json` lists each at its line, with the properties that cover it.

## 2. The modules

    StockLedger          what inventory promises, every operation atomic
      ^ implemented by (LedgerSpec, checked and proved)
    Inventory            transactions, row locks, reaper, rollbacks, restarts
    OrderSaga            EXTENDS StockLedger: orders + outbox + network + ledger
      ^ implemented by (KeepsTheSaga, checked and proved)
    AuditTrail           EXTENDS OrderSaga: + audit, its two kinds of events, reaper batches
    Delivery             what the outbox promises of a row
      ^ implemented by (KeepsItsPromise, INSTANCE ... WITH, checked and proved for one replica)
    Outbox               rows, pollers with copies of rows, requests, peers, purge
    CircuitBreaker       overlapping calls in discrete time
    UsersSeeder          replicas that start, race on a unique key, fail and start again
    *_proofs             theorems of each;  MC*  the instances TLC checks

The saga composes each service at its abstract step: of inventory it takes the
ledger that `Inventory` is shown to implement, and of the outbox what `Outbox` says of
one row (sent again until it is handled and marked so, or given up).

### StockLedger and Inventory

`basket[o]` is the request of order `o` after `sumAndSortItems`: units per product.
`quantity`, `reserved`, `status` are the committed columns; `expired` holds the orders
whose `expiresAt` has passed. `StockLedger` has three operations: `Reserve` (all the
units or none), `Finalize` (of a held reservation, once), `Expire`.

`Inventory` shares these variables (the refinement mapping is the identity) and adds
what runs: `txn[w]`, the transaction of each handler or reaper tick.

| Step of `txn[w]` | Code | Actions |
|---|---|---|
| `stock` | the loop of conditional UPDATEs in `reserve` | ReserveItem, ReserveReject |
| `save` | `save(Reservation)`: its SELECT, then INSERT or UPDATE | ReserveSelect, ReserveInsert (with 23505), ReserveOverwrite |
| `find` | `findOne` with a pessimistic write lock in `finalize` | FinalizeUnknown, FinalizeNoOp, FinalizeFind |
| `items` | the UPDATE per item and the reservation's `save` | FinalizeItem, FinalizeCheckFails, FinalizeCommit |
| `reply` | the audit event and the answer | Reply |

A product in `done` has been updated by that transaction, which holds its row lock
until it ends; the new values appear in `quantity` and `reserved` at COMMIT, so nobody
reads them earlier (READ COMMITTED). A transaction that reaches a locked row waits:
its action is not enabled. `IsNext` is the ascending order of `sumAndSortItems`.
`DeadlockVictim` ends a transaction of a wait cycle, `Rollback` any transaction, without effect; `Restart` ends all of them and forgets
the reaper's batch. `SeedRead`, `SeedDiff`, `SeedSave` are `upsertStock`: a read outside
any transaction, then TypeORM's own read and an UPDATE of the columns that differ.
The 23505 of a reserve delivered again (`DuplicateKey`) is in the model but no run reaches it: both reserves
want the same stock rows, so the second looks the reservation up after the first has ended, finds it and
overwrites it. Only an order without items would get there, and the DTO of orders refuses those.
`Requests` is the set of what may ask for a finalize (a confirmation, a cancellation, the
release of an orphan), `Resend` that of the orders whose reserve may arrive again.
Postgres and TypeORM are not in the repository; the locking, the isolation level and
`save` are modelled from how the code uses them and from their documented behaviour.

### CircuitBreaker

A call is `plain` (admitted while closed) or the `trial`, with its age. `admit` gives
AdmitCall and AdmitTrial (a rejected call changes nothing and has no action); `onSuccess`
and `onFailure` give Succeed, FailTrial and FailCall. Only differences of `Date.now()` are
read, so time is the age of each call and `sinceOpened`, which stops at ResetTimeout, as
`failures` stops at Threshold. Both limits lose nothing: the code only compares
them with `>=`. `Tick` cannot pass a call's timeout.

### Outbox

`tick[p]` is the local state of the tick of one replica: `batch`, the copies of rows it
has left (`claimDue` returns entities, and later writes use their `attempts`, not the
table's), `failed`, the destinations that failed in this tick, and the row being
delivered. A replica runs one tick at a time (`running`). MarkAttempt counts the attempt
and sets the backoff before the send; MarkSent and MarkError write the outcome.
`destination` is what `resolveDestination` makes of each row's event type: audit, inventory
or none, chosen in Init from `Destinations`. `Healthy` are the peers that answer in time: for
their rows there is no Timeout, no Lose and no answer left out.
`net` holds requests, and Timeout leaves them there: a peer may handle a request nobody
waits for. `Handle` is the deduplicating peer, to which an `eventId` it knows changes nothing: `handled` is
the set of those. CutShort is a crash, or an UPDATE of `markAttempt` or `markError` whose
error leaves the tick, before the request was sent or after; SentNotSaved is the failure of `markSent`,
its UPDATE applied or not, which the `catch` of `deliver` takes for a failed delivery: its
`markError` then writes over whatever the row says. `wait` is the time left to `nextAttemptAt`, in
units of the base backoff; all rows count down together (Elapse). Rows are
numbered by `createdAt`. Insert may happen in any order, because a transaction takes its
`createdAt` when it starts and may commit after a later one.

`Delivery` is the promise of the outbox: a row is inserted, handled, sent or given up, and purged.
It names the one way back a single replica has: writing `sent` failed although it took effect
(SentUnsure), and the error that follows undoes it (Recant). Every such row costs a failure. `Outbox` instantiates it
(`Promise`) with the identity on `status`, `handled` and `faults`, and with `unsure` the sent rows a tick is
about to mark with an error (`Unsure`).

### OrderSaga

`stage` follows `createOrder`, `order` is `orders.status`, `row` is the outbox row of the
commit and of the release of each order, and `net` is the set of requests to inventory. A
repeated send leaves the set as it is, and a request may be sent again after it was
handled, so duplicates are covered. `UpdateStatus` is a whole transaction, because
`transitionStatus` locks the row of its order before it checks the transition. ReserveFails and
CreateFails may happen whether or not inventory reserved. The breaker appears as
CircuitOpen, a refusal that may happen at any time. `ActionOf` is the poller's routing by
event type. A reserve is sent once per order, because its id is a new UUID.

### AuditTrail

`AuditTrail` extends the saga. `told[o][c]` is the outbox row of a status change `c` (from, to)
of an order; the code writes it in the transaction of the change, so `Tell` is part of the same
action. `emitted` are the events of inventory on their way, never removed: they may be lost
(never handled), late or doubled. `Emit` stands for `emitAuditEvent` and for its condition: `finalize` answered
a reservation, changed or not. An entry of `trail` is named by what determines its
`eventId` (order and change, or order and cause), so storing it twice is the union it is.
The saga's atomic `Reap` becomes three actions, as in `reap`: ReapClaim reads what is held and expired,
ReapRelease finalizes it later, whatever it is by then, ReapFails drops it. `claimed` is the union of
the batches of all replicas, which is why ReapRelease may leave an order in it.

### UsersSeeder

`boot[r]` is how far replica `r` is: looking up its `next` user, hashing the password before the
insert, up, or down in one of three ways. Init has the rows an earlier start left, a prefix of the
list. Find and Create are the two statements of `seedUser`; another replica may insert in between,
and then `save` fails on the unique index (Conflict), `onApplicationBootstrap` rejects and the process ends.
Start may happen again, though nothing in `docker-compose.yml` restarts a container. `conflicts` is a
history variable.

## 3. What is checked

Every run ends within three minutes on two cores. The number of distinct states is in the last column.

| Run | Instance | Shows | States |
|---|---|---|---|
| `inventory` | 2 orders competing for 2 products, 2 handlers, 1 reaper, 1 fault | Inventory implements the ledger (LedgerSpec), counters match the reservations (ReservedMatchesHeld), no more is held than there is (HeldFitsStock), stock leaves only with commits (StockConserved), outcomes are final (OutcomeIsFinal), row locks never wait in a cycle (NoWaitCycle) | 183,580 |
| `inventory_disturbed` | 2 orders of which one is delivered again, 1 handler, 1 reaper, 1 PUT handler, 1 fault, fair | nothing but a PUT /stock that writes back a stale `reserved` takes the counter below what is held (OnlyStalePutUndercounts); an expired reservation is settled (ExpiredIsSettled), deadlocks, rollback and restart included, but for the three cases it names | 163,718 |
| `breaker` | 4 calls, threshold 2, timeouts 3 and 4, fair | one trial (SingleFlight) that decides alone (TrialDecidesAlone), never stuck half-open (NeverWedged), closes for good once inventory stops failing (Recovers) | 1,891 |
| `outbox` | 1 replica, 3 rows, batch 2, 2 attempts, 1 fault, inventory may be down, audit is healthy, fair | the outbox implements Delivery (KeepsItsPromise), attempts are counted (AttemptsCounted), each row leaves the queue for good and those for audit as sent (Settles) | 255,765 |
| `outbox_replicas` | 2 replicas claiming one row, fair | sent only if handled (SentWasHandled); a row that the other replica's error brought back leaves the queue again, for good (Settles) | 96,484 |
| `order_saga` | 2 orders, 1 product with stock for both only if each asks for 1 | a live order within its TTL has its stock (LiveOrderHasStock), so together they fit the stock (NoOverpromise); outcomes have their cause (OutcomeHasCause); a sent event settled its reservation (SentRowSettles) | 82,690 |
| `audit_trail` | 1 order, all its events | the trail of an order is one whole history once its rows are sent (TrailIsWhole); what it says of the reservation never runs ahead of inventory (TrailNeverAhead); an orphan never has a history (OrphanIsNoOrder); the audit and the reaper's batches change nothing of the saga (KeepsTheSaga) | 776,962 |
| `users_seeder` | 3 replicas, the 2 users of the code | who serves has both users with their roles (ReadyWhenUp), failing on the unique email ends (ConflictsBounded) and never takes all replicas (SomeoneSurvives) | 2,431 |

Each property is also run against a faulty variant of a definition (the operators
commented "Mutant"), which must violate it.

**Why the bounds are enough.** Two transactions suffice for each race here, since every
lock, copy and lost update is between two actors; the reaper is the third, so a reserve, a
commit and a release meet. Two products are the least that make a lock cycle; a basket of
`<<2, 1>>` against one of `<<1, 1>>` makes the orders compete for the first product while
the second would serve both, so a rejection falls after a row was taken or before. Four
breaker calls are two late plain ones, a trial and one that would be a second trial. Three
outbox rows with a batch of two make a row wait for a later batch, and two for a peer that
is down before one for a healthy peer fill the batch in front of it; two attempts make a
retry and an exhaustion; one fault puts a crash at every point. The audit needs one order,
since no entry depends on another order's; all of its changes, causes and deliveries
interleave. A third replica of the seeder lets one fail on the second user while two race on
the first. For liveness the disturbed inventory has one product: deadlocks with a
redelivered reserve are between a stock row and a reservation. In the saga the order of
messages is the hard part, and it is unbounded: rows may be sent any number of times.
Symmetry is used for orders and handlers in runs without liveness. The parameters beyond
these are covered by the theorems.

Deadlock is not checked in the runs of Inventory, Outbox, OrderSaga and AuditTrail, because there
the system may rightly stop: every order is at its end and nothing is left to deliver.
(Waiting in a cycle, which is what a deadlock would be in Inventory, is NoWaitCycle.)

**Fairness.**
- Inventory: strong fairness of each transaction's progress. A lock waiter is enabled
  only while the row is free, and Postgres queues the waiters. Strong fairness also of FinalizeItem by itself:
  reserves of the same order that keep being delivered again could otherwise take the stock row first and
  deadlock with the finalize every time, which the queue of the row lock does not let happen for ever. Weak
  fairness of DeadlockVictim (`deadlock_timeout`) and of the reaper, as its `@Cron` keeps firing. No request
  or fault is fair.
- CircuitBreaker: time passes and a call ends, as its timeout sees to it. A trial is
  asked for as long as one is due: clients keep placing orders, without which nothing in
  the code moves the breaker. Success is never assumed; Recovers has it as its premise.
- Outbox: the clock runs and each replica's tick goes on (`@Interval`, and the timeout of a send).
  A healthy peer handles a request and answers in time, which is what healthy means;
  no other peer has to answer, and no request to it has to arrive. In `outbox_replicas` no peer is healthy.

## 4. Findings

Where the code does other than a comment or the README of the repository says.
Each has a run in which TLC shows the disagreement.

| Run | Says | Does |
|---|---|---|
| `reaper_leak` | the reaper releases what is held past its TTL, and its `eventId` is unique because a reservation is claimed once (`reservation-reaper.service.ts:9-11, 42`) | a reserve delivered again after that release sets the row back to held (`save` on a known key is an upsert, so the 23505 that `inventory.service.ts:39-44` counts on never comes); the `processedEventId` of the reaper stays, so its next release is taken for a repetition and the stock stays held. In today's flow orders creates the id and does not retry a reserve |
| `audit_noop` | the audit events of inventory trace each real change (`libs/shared/src/events/inventory-events.ts:13-16`) | a finalize that found the reservation settled emits its event all the same: the trail shows a released reservation committed |
| `confirm_after_ttl` | CONFIRMED commits the stock (`README.md:387`) | after the TTL the reservation is gone, the commit is acknowledged as a no-op and the order stays confirmed |
| `cancel_after_commit` | CANCELLED frees what was reserved (`README.md:390`) | CONFIRMED → CANCELLED is allowed, and the release of a committed reservation is a no-op |

Three consequences of the code that the properties take into account, without a run of their own:

- `upsertStock` may write back a `reserved` it read before a concurrent reserve or finalize. The counter
  then says less than is held, the CHECK may refuse a release (the third case of ExpiredIsSettled), and
  **more can be held than there is**: a PUT that sets 1 reads `reserved = 0`, two orders reserve the two units there
  are, and the PUT writes quantity 1 and reserved 0, which the CHECK accepts; or one order reserves, the PUT writes,
  and the second order's conditional UPDATE finds a unit that is not there. In the instance of `inventory_disturbed` TLC
  finds HeldFitsStock violated in 13 states. It is no finding, because the code calls PUT /stock a fixture, "no una API de reabastecimiento"
  (`inventory.repository.ts:198`, `README.md:374`), but the protection against overselling that
  `inventory.repository.ts:54-59` speaks of is only as good as the counter. OnlyStalePutUndercounts is
  what the code does guarantee: nothing else makes the counter say too little.
- A `markSent` that fails after its UPDATE took effect puts a delivered row back to pending, or to failed at its last
  attempt, with one replica too, because `markError` has no condition on the status
  (`outbox-poller.service.ts:170-177`, `outbox.repository.ts:84-90`). The event has been handled, and a repetition
  is a no-op; a row left as failed says of it that it was not delivered. `Delivery` allows it, at the price of a failure.
- A breaker call admitted before the circuit opened closes it if it ends late and well,
  with no trial (SingleFlight and TrialDecidesAlone hold all the same).

LiveOrderHasStock and the theorems below therefore speak of orders within their TTL, and
ReservedMatchesHeld of the service without repeated reserves and without PUT /stock.

## 5. What is proved

For any sets of orders, products, handlers, replicas and calls, any baskets and stock.
The assumptions are those the modules name: baskets and stock are natural numbers,
products are ordered (named by naturals), handlers and reapers are distinct and, as the connections
of a pool, finitely many, and what is configured is a positive integer (`Setting`), which
`parseIntEnv` sees to. A condition that only some theorems need is an operator named in their ASSUME:
`Single`, `DeliveredOnce`, `LongReset`, `OneReplica`.

**StockLedger_proofs.** `LedgerReserved`, `LedgerCounters`, `LedgerHeldFitsStock`, `LedgerConserved`,
`LedgerOutcomeIsFinal`. ReservedMatchesHeld speaks of the cardinality of a set of units, so the
proofs first show what one more or one less order does to `UnitsOf`; the orders that hold
something need not be finitely many, so the inductive invariant also says that the
units held and committed are finite sets. ReservedBounds (the CHECK) and StockConserved are inductive only
together with ReservedMatchesHeld: a release must know that what it subtracts is there. HeldFitsStock
follows from the two: the CHECK bounds a counter, and the counter is what is held.

**Inventory_proofs.** `InventoryTypes`, `InventoryBound`, `InventoryRowsHeld` and `InventoryOnlyStalePutUndercounts` hold with no condition: reserves may be
delivered again and PUT /stock may write back a counter it read long ago. `BoundInv` says why. Each row a
transaction has locked has what it needs of it (units still available for a reserve, units reserved for a finalize),
no two transactions have locked the same row, and a row is written only by its holder or, in
`upsertStock`, while nobody holds it, and then the CHECK has its say. So no subtraction
goes below zero and no row has more reserved than its quantity. `RowsHeld` says what a finalize has of the
reservation whose row it locked: it is still held, and no other finalize works on it, since a save
that overwrites it waits for the same row. Each finalize therefore takes out the units of a
reservation that was held until then, and each reserve adds its units to the counter whether or not the order held them
before: the counter may say too much, never too little (HeldIsReserved), unless a PUT /stock writes it back.
Without PUT /stock this makes `InventoryHeldFitsStock`: no more is held than there is, however often a reserve is delivered.

`InventoryImplementsLedger` and `InventoryKeepsStock` are proved for `Single`: no reserve is delivered twice and
nobody sets stock, outside which they do not hold: a second reserve is held twice, and `upsertStock` writes
stale values back. The inductive invariant says what each
transaction relies on: a reserve's order is `none` until its INSERT and no other
transaction reserves it; what is in `done` still fits what is available, because its row
is locked; at most one transaction is past `find` for an order, and that order is
still held.

**InventoryLocks_proofs.** `InventoryNoWaitCycle`, for `DeliveredOnce` (`Resend = {}`) and any PUT handlers. A
transaction that waits for the row of its reservation holds no stock row; the exception would be a reserve that
found its row, which takes a second delivery. One that waits for a stock row has only smaller products.
A cycle would therefore consist of stock waiters, each of which wants a greater product than
the waiter before it, and in a finite set of waiters one waits for the greatest. That a map of a finite
set to the naturals has a greatest value is `GreatestValue`: it takes the element with the fewest above it,
which exists because `<` is well-founded. `InventoryOutcomeIsFinal`, under the same condition: `RowsHeld` keeps a reservation held until its one finalize commits,
and only a save could write a settled one, which takes a second delivery.

**CircuitBreaker_proofs.** `BreakerTypes` and `BreakerNeverWedged` hold whatever the timeouts are:
no step leaves a half-open circuit without its trial. `BreakerSingleFlight` and
`BreakerTrialDecidesAlone` are for `LongReset == SendTimeout < ResetTimeout`
(the defaults are 3 s and 15 s; with the opposite a late failure of an old call clears
`trialInFlight` and a second trial starts). The invariant relates ages: every plain call in
flight while the circuit is open is at least as old as the time since it opened, so none
is left when the reset timeout has passed.

**Outbox_proofs.** `OutboxSentWasHandled` and `OutboxTypes`, for any number of replicas, rows
and faults. The invariant: a tick at `acked` has an event that was handled. The type of the clock needs `2 ^ n` to be a
natural number, which the SMT backend does not know of `^`; it is the number of subsets of `1 .. n`.

`OutboxAttemptsCounted` and `OutboxKeepsItsPromise` are for `OneReplica` and any batch, attempts, rows, peers and
faults. They rest on `AloneInv`: each copy a tick holds is of a row that is pending with the attempts the copy says,
and the row it delivers is pending with the attempts it has just counted (`CopiesAgree`), or sent if its `markSent`
failed and took effect, so a write that uses the copy is right; a row that is not being delivered has an attempt left, or one for each
fault (`Budget`); and a request on its way has a row. Every step is then one of Delivery or leaves
its variables alone; a tick has at most one row in doubt, which its next write or its end settles. With two replicas both fail: each writes from a copy the other made stale.

**OrderSaga_proofs.** `SagaImplementsLedger`, hence `SagaNoOverpromise`, and
`SagaTypeCorrect`, `SagaLiveOrderHasStock`, `SagaOutcomeHasCause`, `SagaSentRowSettles`. The invariant adds what a message on
its way tells of its order (a reserve in flight: not yet reserved; an orphan's release:
the creation failed; a commit or a release: its row exists) and that order and reservation
advance together. The type of the ledger's counters comes from the refinement: only
ReservedMatchesHeld and the CHECK say that what is subtracted leaves natural numbers.

**AuditTrail_proofs.** `TrailKeepsTheSaga`: each step is a step of the saga or leaves it alone. The hard case
is a release from an old batch, which is the saga's Reap if the reservation is still held (`expired`
never shrinks in the saga) and a stutter if not. Through it the saga's theorems hold of the
audited system. `TrailIsNeverAhead`, `TrailOrphanIsNoOrder` and `TrailTypeCorrect` rest on one invariant: what was
true when an event was emitted is true of its entry for ever, because no step takes
back an existing row, a settled reservation, a passed TTL or a failed creation (the lemma SagaOnward).
`TrailTellsTheWhole` (TrailIsWhole): every change of an order climbs in `Rank`, so no told change starts from its
present status or from one it comes to later, the next change extends the path at its end, and no two leave the same status
(`PathInv`). The trail shows only told changes and all that are marked sent (`LogInv`).

**UsersSeeder_proofs.** `SeederReadyWhenUp`, `SeederConflictsBounded`, `SeederSomeoneSurvives`, `SeederTypes`, for any
number of replicas and users, from distinct emails. The rows are always the first k of the list. A replica
that is about to insert the i-th user found the i-1 before it, so k >= i-1, and a conflict shows
that k >= i: each replica meets it at most once for each i. The survivor of the last theorem is the
replica whose insert made k what it is.

**Only model-checked.** Liveness (ExpiredIsSettled, Recovers, Settles), which is out of
the provers' reach: every other property of the runs is stated by a theorem.
What folds and recursion compute for every input cannot be proved either; the models
therefore start from the summed and sorted items.

## 6. What is not modelled

- Password hashing, tokens, guards, throttling, DTO validation: libraries, and predicates over one
  request. No operation but the seeder writes a user.
- Listings, search vectors, `totalAmount`, shortfalls, `lastError`, the queries of audit and stock: data no
  step depends on. The listing of orders pages by offset, so a page may repeat an order that an insert shifted.
- Starvation in the reaper's batch: `claimExpired` takes the oldest first, so reservations whose release never
  succeeds (the cases of ExpiredIsSettled) would, once they fill a batch, keep the rest waiting. The run
  has a batch that covers its orders; with a batch of one TLC finds the starvation.
- Configuration, logging, health checks, bootstrap, docker, tests: no state of their own.
- Clock skew between services and Postgres: TTL and backoff pass at any time the models allow.
- The connection the poller shares with `reserveStock` (`INVENTORY_TCP_CLIENT`) and closes
  when a delivery fails: it shows in the saga as a ReserveFails at any time.

## 7. Plan

Done, in this order: StockLedger, Inventory, CircuitBreaker, Outbox, OrderSaga, then AuditTrail,
UsersSeeder and Delivery, with their runs, and a theorem for every safety property and refinement of the runs.
Every component with state of its own is modelled; what remains is to prove more:

1. **Inventory with repeated reserves**: the counter never says too little (InventoryHeldFitsStock); by how much it says
   too much takes a count of the deliveries that were held in the ledger.
2. **CircuitBreaker with a short reset timeout**: a bound on the trials in flight, and the property a repair would restore.
3. **Outbox, several replicas**: a bound on the attempts of a row by the number of replicas.
4. **What liveness rests on**: the steps of Settles and ExpiredIsSettled that are safety properties, such as
   that a row which is due stays due until a tick takes it.
