# Verification of the Infopunks trust layer

TLA+ models of the code in this repository, the TLC runs that check them on
small instances, and theorems that TLAPS proves for every instance. Paths below
are relative to the repository; `A/` stands for `services/mcp-adapter/src/`.

## 1. The system

Two services and a few libraries:

| Component | Where | State it keeps | Operations | Talks to |
|---|---|---|---|---|
| Paid call execution | `A/transport/mcp-server.mjs` | none of its own | `executeTool`, `handleRequest` | everything below |
| HTTP transport | `A/transport/http-server.mjs` | none | paid route, challenges, discovery | `executeTool`, war-room feed |
| Entitlement and billing | `A/payments/entitlements.mjs` | none | `authorizeAndBill` | verifier, state store |
| Payment verifier client | `A/payments/x402-verifier.mjs` | none | `verify`, `settle`, `getReceiptStatus` | the facilitator, over HTTP |
| State store | `A/storage/state-store.mjs` (SQLite, synchronous), `postgres-state-store.mjs` (asynchronous queries) | tables `paid_idempotency`, `replay_nonces`, `payment_receipts`, `tool_usage_ledger`, `billing_ledger`, `request_log`, `distributed_locks`, sessions, trust cache | see below | the database |
| Reconciliation | `A/payments/reconciliation-service.mjs`, timer in `A/index.mjs` | a lease in `distributed_locks` | `reconcileOnce`, `applySettlementEvent` | verifier, state store |
| Entitlement tokens | `A/security/entitlement-token.mjs` | sessions in the store | `validate` | state store |
| Identity resolution | `A/identity/` | mappings; a bootstrap lock | `resolveCaller`, `resolveTarget` | trust API, state store |
| Rate limiter | `A/middleware/rate-limit*.mjs` | counters per key and minute | `hit` | memory or PostgreSQL |
| Upstream resilience | `A/client/` | trust cache in the store | `resolveTrustWithResilience` | trust API |
| Observability | `A/observability/` | bounded feeds and counters | `record`, `list` | - |
| Trust API server | `apps/api/server.mjs`, `lib/http.mjs`, `lib/routes.mjs` | open event streams | routes, authentication, shutdown | platform |
| Trust API platform | `apps/api/lib/platform.mjs` | passports, keys, evidence, snapshots, resolutions, disputes, events, idempotency keys, webhooks and deliveries (SQLite); rate limits, stream slots, retry timers (memory) | `createPassport`, `recordEvidence`, `resolveTrust`, disputes, routing, portability, webhooks | trust engine |
| Trust engine | `packages/trust-engine/index.mjs` | none: pure functions | snapshots, resolutions, events | - |
| SDK, schema packages, war-room page, scripts, archive | `packages/`, `apps/war-room/`, `scripts/`, `archive/` | - | - | - |

A paid call goes like this. A client sends a tool call with an idempotency key
and a payment header. `executeTool` hashes the arguments, reserves the key
(`reserveIdempotencyKey`), hits the rate limiter, checks the token and the
caller, and calls `authorizeAndBill`: the verifier is asked, and one store
transaction (`reservePaidOperation`) writes the replay row and a provisional
receipt, refusing replays and payers over their limit. Then the payment is
settled, the target's passport is looked up or bootstrapped, the tool asks the
trust API, and usage, ledger and log rows are written one by one, and last the
answer under the key (`finalizeIdempotencyKey`). Meanwhile a timer reconciles
provisional receipts with the verifier.

The trust API authenticates and meters a request and runs one synchronous
handler, which changes the tables statement by statement and emits events. An
event goes to the table `trust_events`, to the open event streams and to the
webhooks, which are delivered and retried in the background.

What is hard about it:

* *Interleaving.* In the adapter every `await` lets other calls and the
  reconciler run; several processes share the store. With PostgreSQL every
  query is an await.
* *Partial failure.* Neither the rows of a paid call nor those of a handler of
  the trust API are written in one transaction, and any statement may throw.
* *Crashes.* A process may die between any two statements; the tables survive,
  counters, streams and timers do not.
* *Retries and replays.* Clients repeat keys and payments; a payment has three
  identities (nonce, reference, fingerprint), and replay rows expire. Reports
  are repeated, by their reporters and by imports.
* *Stale answers.* The verifier is asked about a receipt and the answer applied
  later; an opinion is cached and served later; a session is read and written
  later.
* *Leases.* Runs of the reconciler outlive their lease, the timers of one
  process overlap, and a call waits for a bootstrap lock only so long.
* *Many paths to one question.* Terms of a payment are held in four places;
  score, band, state and decision of a subject are computed by different rules.

What makes each part correct:

* paid call: a key is charged for once, a payment buys one call, a payer stays
  within its limit, an answer once given is given to all, and a success has all
  its books; a payment is booked as what was signed;
* reconciliation: receipts only move forward, what is booked is what the
  verifier said, one run reconciles at a time, a decided payment is settled
  in the end;
* the way to a paid call: limits hold per minute, sessions keep their token and
  end, bootstraps neither mislead nor block, an answer is what it calls itself;
* trust API: keys keep to their limits, streams lack and repeat nothing;
* webhooks: a delivery is tried within its limit, never forgotten by a running
  process, booked as it ended, and not repeated once acknowledged;
* ledger: what was reported counts, a retry is accepted, a refusal changes
  nothing, what is final stays, and who is denied is not trusted elsewhere.

`PROJECT.json` lists every component with its status, and under `hazards` the
places where the code can go wrong in a way tests hardly reach.

## 2. The modules

| Module | Models |
|---|---|
| `ReceiptStatus` | the statuses of a receipt and the rules by which they change: `mapSettlement`, `STATUS_RANK`, the guards of `updateReceiptSettlement` |
| `PaidCall` | one action per step of `executeTool`, `authorizeAndBill` and the SQLite store, for any number of concurrent calls |
| `IdealBilling`, `PaidCallRefinement` | what the paid path promises payers, with no protocol; the mapping under which `PaidCall` implements it |
| `Reconciliation` | runs of `reconcileOnce` in several processes, settlement events, failing calls, over either store |
| `PostgresReservation` | `reservePaidOperation` of the PostgreSQL store, query by query |
| `PaymentTerms` | configuration, challenge, and what of a payment is verified and booked: pure operators |
| `FrontDoor` (extends `PaymentTerms`) | a call from the HTTP route or the RPC channel through limiter, token, caller, payment, target and upstream to its answer |
| `WebhookDelivery` | the webhooks of the trust API: dispatch of an event, deliveries, retries, restarts |
| `TrustApi` (extends `WebhookDelivery`) | requests of the trust API: routes, keys, rate limits, bodies, events, event streams, shutdown |
| `TrustEngine` | `packages/trust-engine`: pure operators on evidence and snapshots |
| `TrustRouting` (extends `TrustEngine`) | selection of validators and executors, quorums, escrow, budgets of autonomy: pure operators |
| `TrustLedger` (extends `TrustRouting`) | passports, evidence, snapshots, resolutions, disputes, idempotency and portability, statement by statement |
| `Lists` | `filter` and `reduce` on arrays, powers of two: recursive functions, used by `FrontDoor`, `TrustApi` and `TrustEngine` |
| `...Proofs` | the theorems about the module they are named after (`PaidCallProofs`: `PaidCallRefinement` too; `TrustApiProofs`: `WebhookDelivery`; `TrustEngineProofs`: `TrustRouting`) |
| `MC...` | the instances for TLC |

`PaidCall`, `Reconciliation` and `PostgresReservation` share `ReceiptStatus`, and
each sees the others from where it stands: `PaidCall` has a reconciler that
applies any verdict to a list it took earlier, `Reconciliation` has failing
calls and events, `FrontDoor` a reservation that succeeds or fails.

### PaidCall

Each call has a program counter `pc`; the points it can be at are the awaits of
the code:

| `pc` | the call is about to |
|---|---|
| `idle` | arrive: reserve its key, or learn that it is taken |
| `admit` | pass the rate limiter, the token check, the caller resolution, the verifier |
| `reserve` | run `reservePaidOperation` |
| `settle`, `run` | settle the payment; run the tool |
| `undo`, `undone` | mark the receipt failed; write the failed usage row |
| `usage`, `ledger`, `log`, `finish` | write each row, and the answer |
| `fail` | be finalised as failed by the catch block of `executeTool` |
| `report` | have its error reported by the transport |
| `done`, `dead` | over; lost with its process |

`idem`, `replay`, `receipt`, `usage`, `ledger` and `logged` are the tables.
`source` and `reply` are what the caller was told and whose execution it comes
from. `undone` and `lapsed` are history and guard nothing but the bound of
`ReplayWindowEnds`. A request hash is a payload, a payment its nonce; `RefOf`
is the reference the verifier reports, which two payments may share. The
`payment_fingerprint` is a function of the nonce, reference and payer, so the
two comparisons by nonce and by reference stand for all of them. Spend is
counted in units of one call, which is what `resolve_trust` costs; the day of
`spendByDay` is the whole behaviour. A limit comes with the payload, because a
request's `spend_limit_units` replaces the configured one.

`StoreFault` is any store call of the try block throwing, `FinalizeFault` the
one of the catch block. `Refuse` is any throw between the reservation of the
key and the try block. The module
is one adapter process over its SQLite file, so `Crash` kills all calls in
flight; each call has a trace id of its own. `ListUnsettled` and
`Reconcile` are the reconciler seen from here.

### Reconciliation

`Runs` are runs of `reconcileOnce`, each started again by its timer; `WorkerOf`
says in which process. The lease is one row; `live` is `expires_at > now`.
`LeaseExpires` lets the lease of a dead process run out, `LeaseLapses` the
lease of a live one (bounded by `MaxLapses`). With `Postgres = FALSE`
`updateReceiptSettlement` is one step and `acquireLock` admits the owner again;
with `TRUE` it is a read and a write, and a held lock admits nobody. `truth` is
what the verifier would say; `Progress` moves it. `applySettlementEvent` is
reached by tests only (the README still documents its route); it is modelled
because it shares the receipts.

### PostgresReservation

A transaction at READ COMMITTED, one query a step. `Rivals` are the transactions
whose row in `replay_nonces` would violate one of its four unique indexes
(nonce, fingerprint, reference, proof id), `Twins` those whose receipt would
violate one of the two of `payment_receipts`: a receipt has no nonce. An insert
that meets an undecided row waits, as a unique index makes it, and fails if the
row stays: `ReplayDetected` for the first, `ReceiptDuplicate` for the second. The
sum of the day's units sees committed rows only.

A replay row expires (`Lapse`, any time). The expired ones are deleted twice, by
`reservePaidOperation` and by `assertNotReplay`, with the `NOW()` of `BEGIN`. A
DELETE finds its rows when it starts (`Purge`) and visits them one by one, in any
order (`DeleteRow`), waiting for one that another transaction is deleting; what
is deleted comes back if the transaction is rolled back. So two reservations may
wait for each other, over two expired rows or over a row and an insert, until
the database breaks the circle (`DeadlockDetected`). The consequence is the
exception of `OneReceiptPerPayment`: a payment with a reference is committed
once, for its receipt remembers it; one with a nonce alone is committed once
within its replay window.

### FrontDoor and PaymentTerms

`pc` names the awaits again: `limit`, `token`, `session`, `save`, `caller`,
`register`, `confirmed`, `pay`, `verify`, `reserve`, `settle`, `target`,
`lock`, `wait`, `recheck`, `create`, `created`, `release`, `ask`, `cache`,
`fallback`, `deliver`. What the route turns away by itself (402, 415, 400) is
`DoorStatus`, in the order of its checks. The memory driver of the limiter is a
list of counters with the pruning of the code, the PostgreSQL driver one
statement. A token is checked by itself, against the row of its own id, and
against the row of its session, and then the session is overwritten: each is a
step. The trust API is a set of passports, the idempotency rows of their
creation and an opinion per subject that may change, or be revoked, any time;
an attempt may fail before or after it took effect. Time is counted in half
minutes, the clock skew a token is granted.

`PaymentTerms` has a payment as the terms its client accepted, the terms it sent
along and what was really signed, and follows them through the configuration
(`Config`, with everything `validateConfig` refuses), the challenge
(`Requirement`), the merging of header and body, the checks of
`authorizeAndBill`, the normalisation for the provider `cdp`, and the metadata
of the receipt. Networks and assets are given by the several names the code
translates between. The facilitator is external: it approves what was signed on
the terms it is shown.

### WebhookDelivery and TrustApi

A delivery is an event and a webhook, a webhook its URL. `row` is its row of
`webhook_deliveries`, `live` the fetch or the timer the process holds for it;
the first survives a restart, the second does not. `posts`, `acked`, `misread`
and `lost` are history: what the receiver was sent and answered, and which
deliveries a restart orphaned. `Emit` is `emitEvent` with `dispatchWebhooks`,
one step because nothing in it awaits; a statement that throws leaves the
webhooks after it, or the alias event (`passport.rotated`,
`warroom.alert.raised`), without a delivery. `Delivered`, `DeliveredUnrecorded`
and `Undelivered` are what follows the `await fetch` of `deliverWebhook`:
recorded success; success whose recording throws and falls into the catch
block; failure. A throw in the catch block rejects a promise nobody awaits:
`closing` is set, as `server.mjs` shuts down on an unhandled rejection and on a
signal, and `Exit` ends the process. After `Exit` and `Crash` a new process
runs that reads no row again, so what was open stays open. That is what the
code does, not a disagreement with its documentation, and the properties
except those rows.

In `TrustApi` a request is turned away (`TurnAway`: no route, wrong method, bad
key, missing scope), throttled, or admitted; it waits only while its body is
read, and then its handler runs in one step. `slots` and `used` are
`activeStreamsByKey` and `rateLimits` with its cleanup; several tokens may name
one key. `log` is `trust_events`; a stream remembers what it replayed and what it
sent live. The handlers are told apart by what they emit, what they cost and
whether they may fail; what they do to the tables is `TrustLedger`'s.

### TrustEngine, TrustRouting and TrustLedger

The engine's numbers are hundredths of a percent (`Unit` is 10000), rounded
where the code rounds; age is counted in half-lives. `ComputeSnapshot`,
`ComputeResolution`, `TrustState` and `TrustEvent` are the functions of
`packages/trust-engine`, with every cap and penalty. An action of `TrustLedger`
is one request; its parameter `done` says how many of the statements that
matter it completed, all of them unless it is the one that is cut short, by a
crash or by a statement that throws. `told`, `behind`, `rolledBack`, `adopted`,
`unapplied`, `origin` and `torn` are history: they say which subjects the
properties must except because a request about them was cut short or a bundle
was imported over them.

A report carries its weight, which is what `computeTaskValueWeight` returns:
`NaN` for a `capital_exposure_usd` below -1 or a `difficulty_score` that is no
number, which the schema admits and no clamp stops. One such task in the recent
window makes six numbers of the snapshot `NaN` (`Without`): reliability,
stability, bribery, anomaly and both indices. `Recompute` is the snapshot as it
is computed, `Recomputed` as it is stored: `JSON.stringify` writes `null`
(`Saved`), for which the readers have defaults of their own (`Read`, `ScoredRisk`,
`ExecutorReliability`). A request that has to compute the snapshot uses it before
it is stored (`WithSnapshots` against `StoredSnapshots`). A resolution then has
no score, which the table refuses (`LoseResolution`: the caller is told INTERNAL,
and the next attempt, which reads `null`, succeeds); a selection of executors
takes such a candidate for one with nothing against it, and sorts it anywhere.

`Known` are the subjects that have a passport when a snapshot is computed. Only
a voucher among them counts for shared issuers and infrastructure, so `GraphOf`
gives a subject another collusion risk at its next report if a voucher has
registered since. `SameIssuer` and `SameInfra` are relations between subjects
because issuer, owner and framework of a passport never change.

The snapshot in a bundle is stored as it came; `adopted` names the subjects that
have one from another installation. Of such a snapshot the model assumes its
version only. The evidence in a bundle is assumed to be what the schemas of the
installation that recorded it admit, and the snapshot to be of the subject the
bundle names.

## 3. The runs

| Run | Instance | Shows |
|---|---|---|
| `paid_call` | 2 calls, 2 keys, 3 payloads, all faults, crash, reconciler, the replay rows of `m2`, `m3` may expire | types, limit, books, answers, receipt statuses; `PaidCall` implements `IdealBilling` |
| `paid_call_sound_store` | the same without store faults; every replay row may expire | one receipt per key and payment; a failed call leaves no provisional receipt; a call that reached billing finalises its key |
| `paid_call_busy` | 2 calls, 1 key | finding 1 |
| `paid_call_inflation` | 2 calls, 1 key | finding 2 |
| `reconcile_sqlite` | 2 processes, an event, a failing call, 2 receipts, a lapse, a crash | what is booked is true |
| `reconcile_postgres` | 3 runs of 2 processes, 2 receipts of which the older has no reference, a lapse, a crash | one run at a time, overlapping timers included; a decided payment is settled |
| `reconcile_downgrade` | 1 run, 1 failing call, PostgreSQL | finding 3 |
| `postgres_reservation` | 4 transactions, 2 payers, 2 payments (one with a reference, one with a nonce alone), expiring rows, deadlocks | one commit per payment within its window, or for good with a reference; refusals have a cause; nobody waits for ever |
| `postgres_overspend` | the same | finding 4 |
| `front_door` | 2 or 3 calls in 1005 starting situations | limiter, sessions, bootstraps, opinions, payments; every call is answered |
| `webhook_delivery` | the whole trust API in 260 starting situations | streams, keys, deliveries |
| `trust_ledger` | an agent and a validator, 5 workloads | evidence, retries, decisions, selection, refusals, history, announcements |

The two large modules start in several *workloads*: each allows the requests
that bring out one stage of the code, so that all stages are checked in one run
without multiplying them with each other.

* `front_door`: `Limited` (limiter, both drivers, two keys, a restart, a minute
  that ends), `AtTheDoor` (every header and body the route refuses), `Tokened`
  (two or three tokens of one or two sessions, one used twice, other payers,
  clocks that run past their end), `Registrations` (callers, known and new, same and other
  label), `Bootstraps` (two calls about one unknown subject, or one of them from
  it; a restart), `Resolutions` (an opinion that changes and a passport that is
  revoked), `Payments` (24 deployments, of which the valid ones start, with
  signed payments on current, old and foreign terms, described in every way, in
  header or body, or with a body that names another network, and unsigned ones).
* `webhook_delivery`: `Deliveries1` (two webhooks with 3 and 2 attempts, an
  event and its alias, a kill), `Streams` (two streams of one key with every
  kind of `since`, an empty or a longer log than is replayed), `Notices`
  (deliveries that announce their own failures), `Door` (every route with every
  kind of key and body), `Limits` (one request below the limit of every bucket,
  two tokens of one key, four minutes, a signal or a kill).
* `trust_ledger`: `Registration`, `Reputation`, `Return` (a bundle comes back),
  `Work` (disputes, selection, escrow), `Contention` (two clients and one
  subject).

Bounds. Calls never leave a state in which a fresh one behaves differently, and
each property speaks of at most two calls or of as many as a limit admits plus
one; so two calls on one key are what the hazards need, and a payload whose
limit is lower lets two exceed it. Two keys let two payers' calls overlap, and
let one payment be presented under both. Payments `m1` and `m3` share a
reference, `m2` has none, so every branch of the replay check is taken. Two
receipts and a batch of two let a run be in the middle of its list, or stuck
with one it cannot move; more stuck receipts than a batch holds, which starve
all that come after them, are a hazard no property covers (section 6). A crash
and a lapse each happen once: both put the system in a state the next
acquisition starts from afresh. Calls and keys are symmetric, and symmetry is
used in `paid_call` only, which checks no liveness. `Limit = 1`, `MaxTracked =
1`, `MaxStreams = 1` and `ReplayLimit = 2` stand for larger settings: some
workload exceeds each of them by one. `Attempts = 3` is the length the code
configures. Deliveries do not depend on each other except through a shutdown, so
those of one event and its alias put every stage of one beside every stage of
another. A request of the trust API emits one event and its alias at most. In
`postgres_reservation` two transactions on each of two payments let one lapse
while another is deleting, inserting or refused; three of them have one payer,
with limits 1 and 2. In `trust_ledger` three pieces of evidence with windows of
1 and 2 let each, a QUARANTINE or a task without a weight as well, leave first
the recent window and then the medium one; v vouches for a and is of one house
with it, and v may register between two reports; `MaxNow = 1` halves every
weight once; one request is cut short, one bundle is exported and one imported.

`paid_call_sound_store` turns store faults off because some of its properties
are about what the code does while the store works. `CHECK_DEADLOCK` is off
everywhere, since a system whose calls have all been answered stops.

Fairness. In `PaidCall` and `FrontDoor`, weak fairness of each call's steps:
promises are resumed, and every outgoing request has a timeout. Arrivals,
crashes, reconciler, clocks and replay windows are owed nothing. In
`Reconciliation`, weak fairness of a run's steps; strong fairness of
`AcquireLock`, since `setInterval` fires for ever and each firing finds the lock
free again and again; strong fairness of getting an answer about a receipt,
since a verifier that is asked for ever answers for ever often; weak fairness of
`LeaseExpires`, since clocks run. In `PostgresReservation`, weak fairness of
each transaction's queries, which a wait for a lock disables, and of the
detection of deadlocks it is caught in, which PostgreSQL does after
`deadlock_timeout`. In `WebhookDelivery` and `TrustApi`, weak fairness of the
answer to a fetch (undici ends one that gets no answer), of each timer, and of
the exit of a process that has begun to shut down (it exits by itself after 5
s); requests, events and crashes are owed nothing. `TrustLedger` promises
nothing about the future, and assumes no fairness.

## 4. Findings

1. **A refused call keeps its key** (`paid_call_busy`). The rate limiter, the
   token check and `resolveCaller` throw before the try block that finalises
   the key (`A/transport/mcp-server.mjs:522-556`). Every retry of the key is
   told "already in progress", although the 429 said it was retryable.
2. **A failed call can count as spend** (`paid_call_inflation`). A payment that
   was settled before the tool failed cannot be marked failed, and one that the
   reconciler visits afterwards becomes settled; both count in `spendByDay`. A
   test says failed calls do not inflate the spend.
3. **A settled receipt can be taken back** (`reconcile_downgrade`). The
   PostgreSQL `updateReceiptSettlement` checks in one query and writes in
   another, without a condition or a lock.
4. **A payer can exceed its limit** (`postgres_overspend`). The PostgreSQL
   `reservePaidOperation` reads the spend without locking what it reads.

SQLite has neither of the last two: its methods are synchronous.

What the models show besides, where no document or test says otherwise. The
properties name these cases as exceptions.

* *Adapter.* The answer of a call that was billed can be a 503, if the war-room
  write after it throws (`http-server.mjs:2050`). A token is accepted for one
  clock skew longer than the row it leaves. Two tokens that race for a new
  session are both accepted, and the later row stands; a third that races with
  them may use a session the first has run out of. A body may name another
  configured network than the one that was signed, and the receipt says what the
  body does. A call that waited 40 ms
  for the bootstrap lock goes on without it; the conflict is forgiven for a
  target and not for a caller. A slower call may cache an older opinion over a
  newer one, and an opinion cached before a revocation is served, as degraded,
  after it. Under `cdp` the price a payment is held to is the one it names
  itself, where it names one; over RPC the client's own terms are verified.
* *Trust API.* A replay that throws after the headers are out ends the process,
  through an unhandled rejection. A stream that asks for more than 100 events
  has a gap it cannot see. `since=0` replays the latest events, a negative
  number the oldest, and what is no number none.
* *Ledger.* A request that was cut short after its first statement is
  recognised when it is retried and answered as processed, although the rest of
  it never happens: a report of a revocation may never revoke, a passport may
  stay bare. Importing a bundle again fails at its receipt, after the evidence
  and the snapshot have changed. Candidates for a quorum are not deduplicated.
  The choice of validators and the escrow quote look at the band, which a
  quarantine record does not lower. A resolution refused for low confidence has
  written its row. A report whose weight is `NaN` empties six numbers of the
  snapshot until it leaves the recent window; a request that computes such a
  snapshot itself fails, or selects a subject that has no score. A snapshot that
  comes with a bundle is not under its hash and is stored unchecked.

## 5. The proofs

TLC checks the instances of section 3; the theorems hold for every value of the
constants that meets the named assumptions, with and without failing statements
and restarts unless a theorem says otherwise. Every safety property of every
passing run is stated by a theorem.

### ListProofs

What the operators of `Lists` compute, for any list and any finite set. A filter
of a list is shown to pick its elements in order (`FilteredIsTaken`), to have the
elements that pass the test and no others (`FilteredMembers`), and to work piece
by piece (`FilteredAppend`, `FilteredConcat`, `FilteredPartsGrow`); a sum of
naturals is a natural (`SumIsNatural`), a power of two positive
(`PowerIsPositive`); elements can be ranked by any total order, which is what a
sort does (`RanksAreTaken`); an insertion is a splice (`SpliceIsList`).

These are inductions. The library's induction theorems take an operator, which
the provers cannot instantiate, so they are stated here for a set: a set of
numbers with 0 that is closed under successor has them all (`SetInduction`,
from the least number outside), and likewise for lists (`ListInduction`) and
finite sets (`FiniteInduction`). A recursive function is unfolded by proving that
one that satisfies its equation exists and is unique (`FilteredUnfolds`,
`SiftingIsUnique`, `SumUnfolds`).

### PaidCallProofs

For any calls, keys, payloads, payments, payers and limits
(`ConstantsAssumption`; `CallsAssumption`: the calls are finitely many, without
which the units of a day have no sum):

| Theorem | Property |
|---|---|
| `Typing` | `TypeOK` |
| `KeyPaysOnce` | `OneReceiptPerKey` |
| `PaymentBuysOneCall` | `OneReceiptPerPayment` |
| `LimitHolds` | `SpendWithinLimit` |
| `SuccessHasItsBooks` | `SuccessIsBooked` |
| `KeyAnswersAlike` | `SameKeySameAnswer` |
| `AnswersStay` | `AnswersAreFinal` |
| `ReceiptsOnlyAdvance` | `SettlementOnlyAdvances` |
| `FailuresAreReleased` | `FailedCallIsReleased`, where the store does not fail |
| `PaidCallIsIdeal` | `ImplementsIdealBilling` (`NoneAssumption`) |

None of them is inductive. What holds them together, in `IInv` (`Invariance`):

* `Ownership`: a call that runs, or has a receipt, owns the record of its key,
  with its payload. Hence one receipt per key, and `finalizeIdempotencyKey`,
  which has no condition in the code, only ever writes an open record.
* `Stages`: the receipt exists from the reservation on, so the reservation
  creates the first one of its key.
* `ReplayHeld`: the replay row of a receipt is live or its window has ended, so
  `assertNotReplay` sees every receipt it must.
* `FailedIsUndone`: only the adapter fails a receipt. The reconciler can turn
  such a receipt settled, which is why the spend limit is stated without them.
* `Books`, `StoredSuccess`: which rows are written at which stage, and that a
  stored success belongs to a call that is over and has written all of them.
* `ToldTheTruth`: what a caller was told is what the record of its key says,
  unless the store failed to write it.

One lemma per part shows that every action preserves it. The step of the spend
limit rests on `CountedStep` (only a reservation lets the counted receipts of a
payer grow) and `ReservationWithinLimit` (any set of counted receipts that
contains the new one is within what the reservation checked). The refinement
uses the same invariant: a reservation is a charge of the abstract billing
(`ReservationCharges`), an answer its answer, and the rest stutters
(`Stutters`); `ChargedIsReceipted` says that the mapping finds its charge.

### PostgresReservationProofs

For any finitely many transactions, any payers and payments
(`ReservationAssumption`): `PaymentIsCommittedOnce` (`OneReceiptPerPayment`, with
the exception of a nonce whose window has ended) and `RefusalsHaveACause`
(`RefusedForCause`). Neither is inductive, since a replay row can go. The
invariant `RInv` adds to the types

* `Inserted`: a transaction past an insert has its row, in `replay_nonces` until
  its window has ended;
* `Seen` and `Purges`: what a DELETE has found, visited or deleted are committed
  rows whose window had ended;
* `Unlocked`: rows are visited by a DELETE only, and a transaction that is over
  has none deleted;
* `Unique`, `ReceiptUnique`: rows are of different payments, unless the
  transaction of one has deleted the other, whatever becomes of those that wait.

### ReconciliationProofs

For any processes, runs, events, receipts and either store: `BookedTruly`
(`StatusIsTrue`); `RunsExclude` (`OneRunReconciles`) over PostgreSQL;
`SqliteOnlyAdvances` (`SettlementOnlyAdvances`) over SQLite, the one that finding
3 refutes over PostgreSQL. What is to be shown of a receipt has to be known of
every answer under way: `Aimed` says that an old answer was the truth when it
was given, and the truth only moves in ways that keep an old answer's booking
true. `Exclusive` carries the lock: while no lease has lapsed, who is active
holds it.

### TrustApiProofs

For any webhooks, events, aliases and attempt limits (`WebhookAssumption`):

| Theorem | Property |
|---|---|
| `WebhookTyping` | `TypeOK`, with the limit on requests |
| `DeliveriesAreRemembered` | `NobodyForgotten` |
| `DeliveriesAreBooked` | `BookedAsHappened` |
| `AckedIsNotResent` | `AckIsFinal` |
| `ApiImplementsDeliveries` | `ApiSpec => Spec` |
| `ApiKeepsDeliveries` | all of the above but types, of the whole API |
| `KeysAreCounted` | `KeysAreMetered` |
| `StreamsAreKept` | `StreamsAreWhole` |

The invariant of the deliveries adds to these that the attempt under way is the
number of requests sent (one more while a timer runs), that nothing is under way
for a delivery whose acknowledgement was recorded, and that an event that is not
out yet, or whose own event is not (an alias), has no delivery: without the
last, `Emit` could dispatch a delivery twice. The answers share one lemma,
`CaughtStep`, for the catch block. That the whole API implements the delivery
module carries its theorems over. For the counters (`ApiAssumption`), `ApiInv`
says what a request at each stage has passed (`Admitted`), that slots and open
streams agree unless the process is shutting down (`Counted`), and that what a
process charged this minute it has counted (`Within`).

For the streams, `StreamsKept` says that what an open stream has sent is the
filter of two parts of the log: the one it replayed and everything since it
subscribed, which do not overlap; and that the first part starts after the event
the client names and ends where the second begins, unless the replay limit cut
it short (`AskedFor`). A step lengthens the log and sends each open stream the
filter of what was added, and a filter of a longer list is the longer filter
(`SentMore`). `ApiAssumption` has `since` be absent, a number or neither, which
is all that `Number(query.since)` (`routes.mjs:9`) tells apart.

### FrontDoorProofs

For any calls, subjects, sessions, tokens, opinions, deployments and workloads:

| Theorem | Property | Invariant |
|---|---|---|
| `SessionsKeepTheirToken` | `SessionKeepsToken` | `TInv` |
| `SessionsEnd` | `SessionEnds` | `TInv` |
| `AnswersTellTheTruth` | `AnswersAreHonest` | `OInv` |
| `BootstrapsAreOrderly` | `BootstrapIsOrderly` | `OInv`, `LInv` |
| `PaymentsAreBookedAsSigned` | `PaidAsBooked` | `PInv` |
| `TheLimitHolds` | `LimitHolds` | `RInv` |
| `ShapesAreKept` | `TypeOK` | `SInv` and all but `PInv` |

Each rests on `Configured`: the deployment is a valid one and only calls there
are get under way. The assumptions say that calls name subjects and sessions
there are (`CallsAssumption`), that the issuer gives one id and session one
expiry (`TokensAssumption`), that payments have the fields of a payment
(`PaymentsAssumption`), and that `None` is none of the values it stands beside
(`ConfigAssumption`, `ReasonsAssumption`). `BoundsAssumption` says that finitely
many calls are counted, that a call in a workload has a rate key, and that limits
and bounds are numbers: `env.mjs:201` demands a positive number of calls a
minute, `rate-limit-strategy.mjs:9` tracks 10000 keys, and
`upstream-resilience.mjs:57` has three delays, so there is at least one attempt.

* `TInv`: every row of a session was written by a call whose token was accepted
  (`RowIsClaimed`), and a call between its reads and its save has seen that the
  rows agree with its token, unless somebody else claims the session as well.
* `OInv`: what a call remembers of its beginning has not been undone since
  (`Remembers`; the world only `Grows`), what it holds is as fresh as that
  (`Working`), and so is what it is answered (`Honest`).
* `LInv`: who is in the lock table holds the lock and is on the way out, or was
  told that the release failed.
* `PInv`: what was booked was accepted and verified, on terms that are a function
  of configuration and payment. Then three lemmas without state: a valid
  configuration has a network (`GoodConfig`), the route's terms are the server's
  (`TermsOfRoute`), and what a facilitator approves was signed as the server
  asks, whichever gaps the normalisation for `cdp` fills (`SignedAsAsked`).
* `RInv`: a key has one counter in a minute (`OneEach`), the counter of a key
  knows of at least as many calls as were let in with it (`Known`), and every
  counter of the current minute is of a key that was let in. The last is what
  the pruning needs: counters of the minute are dropped only when there are more
  than `MaxTracked`, and then as many keys were let in, which is the exception
  `LimitHolds` makes for the memory driver, as a restart is (`Forgot`).
* `SInv`: what a call at each stage holds of its verdict, its attempts and its
  place in the lock; a stage reads what earlier ones wrote, so the types hold
  only together with the other invariants.

### TrustEngineProofs

About the pure operators of `TrustEngine` and `TrustRouting`, for any evidence
(`WindowsAssumption`: the windows are not empty):

| Theorem | Says |
|---|---|
| `SnapshotsAreSnapshots` | every dimension of a computed snapshot is a share, both indices are percentages (`IsSnapshot`), unless a task in the recent window has no weight; what is stored then lacks the six numbers built on weights and no other, and its readers make a snapshot of it (`IsStored`) |
| `QuarantineDenies`, `DenialHasReason` | a quarantine in the window denies; and nothing denies but a quarantine, a high adversarial risk, or one of the two lowest bands |
| `ValidatorsQualify` | validators selected are candidates that qualify; a satisfied quorum of distinct candidates has as many as required |
| `ExecutorsAreAble` | executors selected may execute, and are allowed or named in an answer that says it was downgraded |

`IsSnapshot` is not an assumption, and evidence is what a schema admits
(`IsReported`): a weight is a natural number or `NaN`. The proof goes through
every quotient of the engine, and one of them needed the code's own guard
(`averageWeighted` returns 0 when no weight is left) where the model had tested
for an empty window. `reversals` is the one dimension the code does not cap, and
is shown to be a natural number only.

### TrustLedgerProofs

For any subjects, evidence, bundles and requests, whichever are cut short:

| Theorem | Property | Invariant |
|---|---|---|
| `TypesAreKept` | `TypeOK` | `LInv`, `SInv`, `Scalars` |
| `EvidenceCounts` | `EvidenceTakesEffect` | and `RevocationsHold`, `DisputesOnBooks` |
| `DenialsAreConsistent` | `DenialIsConsistent` | `LInv`, `SInv` |
| `SelectionsAreSound` | `SelectionIsSound` | `LInv`, `SInv` |
| `HistoryIsKept` | `HistoryStands` | `LInv` |
| `RetriesAreAccepted` | `OwnRetryIsAccepted` | `LInv` |
| `QuarantinesAreAnnounced` | `QuarantineIsAnnounced` | `LInv` |
| `RefusalsAreClean` | `RefusalChangesNothing` | - |

* `LInv`: a resolution is not newer than the snapshot of its subject and, at the
  same version, was computed from it (`Versions`); a registration that was not
  cut short has left its key (`Registrations`).
* `SInv`: the lists of evidence name no report twice and the newest first, those
  in bundles no report twice (`ListsAreGood`); snapshots, in the table and in
  bundles, are as the engine stores them, but for subjects whose snapshot came
  from elsewhere (`SnapshotsAreSound`), which stay `adopted` (`AdoptedStays`); and,
  unless they are behind, they count the evidence there is (`SnapshotsCount`).
  That a snapshot counts what a fresh one would, at any time, whatever came
  before and whichever vouchers had a passport, is `SameCounts`: it speaks of
  counts, shares of verdicts and the reliability, of which none depends on that,
  and not of collusion, issuers and infrastructure, which do.
* A selection is made with snapshots that may lack a score. `EligibleIsScored`:
  no validator qualifies without one, for the band is the lowest.
  `UnscoredIsClean`: an executor may be chosen without one, which is the exception
  of `ExecutorIsTrusted`, but none that has a QUARANTINE record in the window.
* `RevocationsHold`: a revocation on record, under a key or just answered has
  revoked its subject or is known never to (`unapplied`). The answers under the
  keys have to be there, since a repeated request is answered from them.
* `DisputesOnBooks`: as many records of a dispute's life as disputes, which an
  import keeps since it only adds (`Grown`).

`LedgerAssumption`, `ContentAssumption` and `RequestsAssumption` are what the
request schemas admit (`generated-openapi.mjs:352` and the following: quality and
confidence are between 0 and 1, the risk is one of three, required and minimum
counts are positive integers, where the proofs need natural ones), and what
a bundle of another installation carries: its evidence was admitted there by the
same schemas and, since hashes are unique in the table it came from, names no
report twice. Of its snapshot the assumptions have the version only, a positive
number; the properties about dimensions except the subjects that adopted one.
The weight of a report is a natural number or `NaN`.

### Only model-checked

Liveness, which the prover cannot do: `BilledCallsFinish`, `DecidedIsSettled`,
`EveryReservationEnds`, `EveryDeliveryEnds`, `EveryCallIsAnswered`. The
properties the four `violation` runs refute have no theorem, of course, except
where a restriction makes them true (`SettlementOnlyAdvances` over SQLite).

## 6. Not modelled

* Formatting, logging, discovery documents, CORS, request and response schemas:
  no state.
* The facilitator's protocol and signatures: it approves, refuses, errs or is
  silent. The verifier modes `strict` and `stub`, and a receipt status that
  `cdp` does not report.
* Time, other than as windows, leases, half-lives and half minutes.
* In the trust API: the tables `passport_keys` and `traces`, key rotation, the
  war-room summary, budget hints, metrics, the simulation route, ties between
  resolutions of one instant, the state `suspended`, which nothing sets.
* In the adapter: the mapping file of agent ids.
* `not_modelled` in `PROJECT.json`, with the reason: the request guard store
  (it forwards to the state store), the store factory, the diagnostics of payment
  headers, the bounded feeds of observability, the generated contracts, the SDK,
  the constant tables of the schema packages, the war-room page, scripts and
  archive.
* Four hazards have no property, and one is covered in part. A request may reuse the client's trace id of
  an earlier one (`mcp-server.mjs:900`); a commit over PostgreSQL may lose its
  response (`postgres-state-store.mjs:312`): `PaidCall` has neither. A slower
  call may replace a newer opinion in the cache
  (`upstream-resilience.mjs:68`), and a write after the billing may turn an
  answer into a 503 (`http-server.mjs:2050`): `FrontDoor` has both, and the code
  promises nothing against them. As many unmovable receipts as a batch holds keep
  `reconcileOnce` from all that are newer (`reconciliation-service.mjs:107`):
  `DecidedIsSettled` is checked with fewer.

## 7. What is left

1. Usage rows by the client's trace id, and the error path that marks them.
2. The idempotency row over PostgreSQL, with commits whose response is lost.
3. The bounded feed of the war room, and the events the adapter puts into it.
4. Key rotation and the states of a passport key.
5. Theorems about what 1 to 4 add; and one that joins `FrontDoor`, whose
   reservation succeeds or fails, with `PaidCall`, whose caller and target are
   there already.
