# Lumina Analytics in TLA+

Lumina Analytics indexes the Stellar network: `lumina-ingest` polls Horizon and a Soroban RPC node
and writes to TimescaleDB, `lumina-api` serves what is stored over HTTP and SSE, a React frontend
shows it. This directory holds TLA+ models of the parts that coordinate or can fail, TLC
configurations that check them on small instances, and TLAPS proofs of the central results.
Paths below are relative to the repository.

    tlasany M.tla                     parse
    tlc -config X.cfg M               model-check
    tlapm PaymentIngest_proofs.tla    check the proofs (and the other *_proofs.tla)

## 1. Inventory

| Component | State | Operations | What is hard |
|---|---|---|---|
| Payment ingestion `src/bin/ingest.rs:160-231,472-545`, `src/horizon.rs` | the cursor `horizon_payments_cursor`, `whale_transactions` | seed, crawl pages, one transaction of rows and cursor, then alerts | crash or lost answer around the commit; a key that does not recognise a replay; page caps and failed pages; rules edited meanwhile |
| Snapshot ingestion `ingest.rs:80-153,317-470` | `pools`, `tokens`, `*_snapshots`, `asset_prices` | one transaction per cycle, errors caught per row, drop alerts after the commit | a failed statement aborts the whole transaction while the loop goes on; baselines after failed cycles |
| Lending ingestion `src/soroban.rs`, `src/db/lending.rs` | the cursor `blend_events_cursor`, `lending_positions` | fetch events, fold each into a running position, alert on a crossing, save the cursor last | no transaction: replays; ties in the ledger close time; a panic; cold start |
| Alert rules `src/alert_rules.rs` | `alert_rules` | resolve thresholds and bands; edit through the API | rules changed or unreadable while a cycle runs; several rules for one target |
| Alert delivery `src/alerts.rs` | `alerts`, `alert_channels` | insert, webhook, channels, NOTIFY | a failure between the four; one target's failure and the others; channels edited meanwhile |
| Live events `src/events.rs`, `src/api/routes/events.rs`, `frontend/src/live.ts` | the broadcast bus, one queue per browser | LISTEN, forward, SSE | notifications lost while reconnecting, a lagging subscriber |
| Alert list and acknowledgement `src/api/routes/alerts.rs`, `frontend/src/pages/Alerts.tsx` | `acknowledged_at`, the list in each browser | poll, refetch, ack, unack, bulk ack | answers out of order, stale lists |
| Rate limiter `src/ratelimit.rs` | token buckets | allow, sweep | two critical sections per request; the sweep forgets a bucket that may not be full |
| Response cache `src/cache.rs` | Redis keys with a TTL | get or compute | a slow computation overwrites a newer one |
| Price discovery `ingest.rs:233-317`, `src/pricing.rs` | none | four hops over pool reserves | the order of hash maps and of pools, ties, shortest hop first, overflow of a product of ratios |
| Read API, search, watchlist | the database | queries | nothing that steps |
| Configuration, authentication, metrics | none | parsing, one comparison | nothing that steps |

`lumina-ingest` is one loop (`ingest.rs:66-77`): each tick runs snapshots, then payments, then
lending, all in one task. The halves share no table but `alerts` and the rules they read, so each
has a module of its own; what one half can do to another is to end the cycle early (which each
module has as a fault at any step) or to end the process (`BadCycleContained`). `lumina-api` only
reads what ingestion writes, and edits rules, channels, acknowledgements and the watchlist.

What makes each part correct:

* payments: no whale missed, duplicated or invented; the cursor moves only with its rows;
* snapshots: a cycle is all or nothing; each drop is alerted on once, and about stored rows;
* lending: the cursor passes no event; a position is what its stored events add up to; an alert for
  each upward crossing and for nothing else;
* delivery: every target an alert is due to is tried before it is announced, nothing is announced or
  delivered that is not stored, an open page shows every alert in the end, and nobody acknowledges an
  alert nobody was shown;
* prices: each rests on real reserves and on XLM's price in the end, whatever the order of the maps;
* rate limiter: never more than burst + rate * time requests, and no refusal before that; cache: an
  answer no older than its TTL and the longest wait of a computed answer before it was stored.

## 2. Modules

| Module | Models |
|---|---|
| `PaymentIngest` | payment ingestion, any number of processes, down to each database call and page |
| `WhaleFeed` | what payment ingestion promises: read in order, store each whale once together with passing it, alert at most once |
| `PaymentIngest_proofs` | the proofs about `PaymentIngest` |
| `SnapshotIngest` | snapshot ingestion, with Postgres's transaction states |
| `SnapshotIngest_proofs` | the proofs about `SnapshotIngest` |
| `LendingIngest` | lending ingestion |
| `LendingIngest_proofs` | the proofs about `LendingIngest` and the bands of `AlertRules` |
| `Recursion` | what the proofs need to know of recursive functions: minimal counterexamples, and that such a function exists |
| `AlertRules` | what a table of alert rules resolves to; extended by the two modules above |
| `AlertDelivery` | recording an alert: row, webhook, channels, NOTIFY, and the way of the notification to a browser |
| `LiveAlerts` | composes `AlertDelivery` with the Alerts page and the acknowledgement API |
| `LiveAlerts_proofs` | the proofs about `AlertDelivery` and `LiveAlerts` |
| `ResponseCache` | the Redis cache in front of the read endpoints |
| `ResponseCache_proofs` | the proofs about `ResponseCache` |
| `PriceDiscovery` | one call of `ingest_prices`, pool by pool and asset by asset |
| `PriceDiscovery_proofs` | the proofs about `PriceDiscovery` |
| `RateLimiter` | the API's rate limiter |
| `RateLimiter_proofs` | the proofs about `RateLimiter` |
| `MC...` | the small instances TLC checks |

Every action ends where the code awaits an answer, so a crash or an edit can come between any two.
What survives a crash (tables) and what does not (`task`, the cycle's locals) are separate
variables. Variables marked "history" record what properties need and decide no step. Definitions
named "Faulty variant of X" are plausible bugs, each of which one of the properties catches; no
specification uses them.

### PaymentIngest
`chain` is Horizon's payment log and a paging token is a position in it. One cycle is `StartCycle`
(the rules are loaded), `ReadCursor`, `SeedFetch`/`SeedSave` on the first run, `FetchPage` (up to
`MaxPages`), one `ProcessPayment` per payment, `Commit` and one `RecordAlert` per alert. Until the
commit, rows live in `task.pending` only: that is the transaction. `Abandon` is a call that failed
after `get_page`'s retries, or a crash: both lose exactly `task`. `CommitAnswerLost` stores and
then ends the cycle. The history `lost` holds the stored payments whose alert a failed insert, a
crash or a lost answer cost. The insert's `ON CONFLICT (op_id, time)` may or may not meet an older row of
the same payment, as the key holds the time of the insert.

### SnapshotIngest
`task.tx` is `open`, `aborted` (a statement failed; later ones fail too; COMMIT rolls back and
sqlx reports no error) or `lost` (the connection is gone; the commit fails). Pools come first, then
prices, then tokens; within a stage the order is free, since a listing comes in any order. A
listing gives each item a level (`total_shares`, holder count) or, for a pool, `Malformed`: rejected
before any SQL.

### LendingIngest
`events` is the contract's event log with the ledger each is in; an ignored event also stands for a
ledger closed without events of the contract, so that the network's latest ledger (`ColdStart`) is
that of the last event. `Fetch` reads cursor, rules and events, page by page: `FetchEvents` ends at
the log's end or after `MaxPages`; `FetchWithoutCursor` after the first page with which the node
sends no cursor, whose events are fetched again in the next cycle as the resume point stays where
the page before left it. `ApplyEvent` reads the latest row and appends the new one; an escalation is recorded before
the next event; `SaveCursor` comes last. `LatestRows` is the query's `ORDER BY time DESC LIMIT 1`:
any of the newest ledger's rows. `ApplyOversized` is the panic of `Decimal::from_i128_with_scale`,
after which only `Restart` steps. Decoding XDR is abstracted to its outcomes: a position event, an
ignored one (which stands for one that does not decode too), an oversized amount. The price map
is constant (an environment variable), so the LTV the code stores with a row is recomputed
from the row's position.

### AlertRules
A table is the sequence `list_alert_rules` returns, in the order of ids. `Resolve` takes the newest
enabled match, as the three threshold functions do; `ResolveBands` applies the band rules one after
the other. A cycle of `SnapshotIngest` and `LendingIngest` loads any table of the constant
`RuleTables`: whatever operators created, changed and deleted in between, and the empty table also
stands for a load that fails (`unwrap_or_default`). `PaymentIngest` keeps the threshold resolved per
asset as state instead. An issuer is part of its asset, and `name.to_ascii_uppercase()` part of a
rule's target.

### AlertDelivery and LiveAlerts
`job` is the call of `record` under way: `Insert`, `PostWebhook`, `LoadChannels`, one `Send` per
channel due, in the order of ids, then `Notify`. `job.due` is what it has found it owes, `job.tried` what it
has posted to. What an endpoint answers decides only what is logged, so a post is one step.
`InsertFails` covers the error and the lost answer of a row that was stored; `Crash` may come between
any two steps. `inbox` holds the notifications between Postgres and one browser: the listener's
queue, the broadcast bus and the SSE stream in one queue of `Capacity`, whose oldest message is
forgotten when it is full (`RecvError::Lagged`). `ListenerLost` loses what was not yet forwarded,
`StreamLost` everything; both come back without what they missed.

The page of `LiveAlerts` is `usePolled`: each `Poll`, each `Hear` and each `Confirm` of an
acknowledgement sends a request of its own, `Answer` is the moment the API reads the table and `Land`
the moment its answer replaces what is shown, in any order. `Acknowledge` takes any nonempty set of
rows shown as new (one row, or what the filters leave of them for "Ack all visible"); `Apply` is the
single UPDATE, and its answer may be lost (`Refused`). Other operators' pages are one action, `Other`. A row of the
table is only its alert; `acked` is `acknowledged_at`, `seen` a history of what operators were shown.

### ResponseCache
One key; requests of several API processes. `Ask`, `Hit` or `Miss`, `Compute` (the moment the query
reads Postgres), `Store` or `StoreFails`, each a step, with no lock between them. An answer is the
version of the database it was computed from and the time it went out. `late` holds writes of
requests that have ended, by a time limit or with their client (`Dropped`), which may still reach
Redis (`LateWrite`). Redis may be down from the
start, fail and return at any time with or without its data, and hold a value that does not parse
(version `Corrupt`). A process that could not connect when it started never uses the cache.

### PriceDiscovery
`Try` is one turn of the inner loop: the pool `at` seen from one priced asset, the assets in any
order since they are the keys of a hash map; `Store` writes one of the prices a hop found, again in any order. Prices are fractions in
units of XLM's price, so no division is rounded; `Panic` is the overflow of a `Decimal`, of the
quotient of the reserves or of its product with the known price.
`MaxHops` is 4 in the code. A pool whose reserves do not parse has no legs.

### RateLimiter
A request is `Arrive` (the sweep, the first critical section) and then `Allow` or `Deny` (the
second): a request in between is `request[w]`, and anything may happen to its client's bucket
meanwhile. `Tick` is the clock, which is read under the lock. With the limiter off every request is
a `Bypass`. The code counts tokens in `f64`; here they are counted in parts, `Cost` of them to a
token, and a tick refills `rate` parts, so that a refill is exact: rounding is left out.

## 3. Runs

| Run | Bounds | Result |
|---|---|---|
| `payments` | 1 process, 4 payments, pages of 1, 2 pages per cycle, 2 faults | passes: 4 invariants and the type invariant, `CursorNeverRetreats`, refinement of `WhaleFeed`, two liveness properties |
| `payment_alerts` | 3 payments, 1 fault | `StoredWhalesAlerted` violated |
| `payment_pages` | 3 payments, 1 fault | `CursorPersistedPerPage` violated |
| `snapshots` | 1 pool, 1 token, levels 0/5/10, thresholds 50 and 80, 3 cycles, 2 faults | passes |
| `snapshots_aborted` | the same with 1 fault | `AlertsAreStored` violated |
| `lending` | 2 accounts, 2 assets (one without a price), 6 payloads, 2 rule tables, 3 events, pages of 1, 2 pages per cycle, 1 fault | passes |
| `lending_ties` | the same | `PositionsAlwaysTrue` violated |
| `lending_panic` | the same | `BadCycleContained` violated |
| `response_cache` | 2 requests of 2 processes, a TTL of 2 ticks, 3 ticks, 1 change, 1 late write | passes |
| `live_alerts` | 2 alerts, a webhook, 2 channels, a page of 2 rows, 2 requests in flight, 2 acknowledgements, 1 edit of a channel, 1 fault, a bus of 1 | passes |
| `prices` | every listing of 3 out of 17 (16 pools and an unreadable one) over XLM and 3 assets, 2 hops | passes |
| `rate_limiter` | 2 clients, 2 requests in flight, 5 ticks, burst 2, rate 0 or 2/3 token per tick, a sweep of 1 bucket or more after 3 ticks | passes |

Why the bounds are enough. `payments`: four payments at two pages of one make three cycles with a
seed, a capped cycle and its continuation; two faults put a failure in a cycle and another in the
cycle that repeats it. Two rules (2 and 3) make one payment a whale under both, one under the
default only. The proofs of section 5 carry the safety results to every bound. `snapshots`: three
cycles are the least in which a failed cycle lies between two good ones; levels 10, 5, 0 give a
drop under one threshold, under both, a drop to zero and the undefined change from zero; one item
per stage suffices since items interact only through the transaction, whose state both stages see.
`lending`: three events reach CRITICAL through HIGH (supply 10, borrow 9, withdraw 1) or stay in HIGH (repay 1, under the lower band), two
pages of one event force a second cycle, and the fault is any one of a failed row, a lost alert, a crash, a
cursor missing from either page or a restart.

`rate_limiter`: a sweep of three ticks just refills a bucket of two tokens at two thirds of a token
per tick, so a sweep one tick too early is caught; two requests in flight are what a sweep between
two critical sections takes; five ticks hold a burst, a sweep and another burst. The limits of the
code (10,000 buckets, an hour) are constants, and the proofs hold for every value of them.

`response_cache`: two requests are what one needs to overwrite the other's newer entry; three ticks hold
an expiry and a wait before a store, and one change makes an older and a newer answer. `live_alerts`: two alerts make one that a page has shown and one
that it has not, and two messages overflow a bus of one; two requests in flight overtake each other;
the fault is any one failed call, crash or lost connection. `prices`: three pools are two routes to one
asset, or a chain as long as the hops and one pool beyond; among the pools are equally deep ones, empty ones, one
between an asset and itself and an unreadable one. The types, and every other invariant and action
property of the passing runs, are proved for every bound (section 5).

`prices` is checked without deadlock checking, as a call ends. `LendingIngest` is checked without deadlock checking: after a panic and with its restarts used up
the process really has stopped. The other runs check deadlock; `SnapshotIngest` has the step
`BoundReached` for the end of its bounded run.

### The disagreements the violated runs show
* `payment_alerts` README.md:194-195 "always records them to the `alerts` table": alerts exist only
  in memory between the commit and their insert, and nothing goes back for them.
* `payment_pages` ingest.rs:30-32 "the cursor is persisted per page": it is saved once per cycle.
* `snapshots_aborted` ingest.rs:19-21: an alert is deferred until its snapshot is committed, but an
  aborted transaction "commits" without an error, so alerts go out for rows that were rolled back,
  and again in the next cycle.
* `lending_ties` README.md:307-308 "amounts are always real": rows of one ledger tie.
* `lending_panic` soroban.rs:212-213 "must never take down payment/pool ingestion": it panics.

### Fairness
For the ingest modules, weak fairness of the process's own next step (`Progress`), and nothing else:
the loop never stops ticking, every HTTP call has a timeout, and every database call returns.
`ResponseCache`: of each request's own next step; axum runs a handler to its end unless the client
goes away, and the Redis client times out. Late writes have none: they need not land. `LiveAlerts`: of the steps of `record` (15 seconds per post, `ingest.rs:48`), of the two
reconnects (`events.rs:41-69`, `EventSource`), of the poll timer and of requests and their answers - not of `Hear`: polling
alone has to suffice. Payments, events, edits, faults, acknowledgements and restarts have none. Faults are bounded by `MaxFaults`, so the liveness properties say
what happens once calls stop failing; they do not say that calls ever do.

## 4. Properties worth a word
* `NoWhaleMissed` speaks of payments that are whales under every rule an operator can set, as the
  rules in force at the cycle decide for the others; `NoFalseWhale` is its converse.
* `AllOrNothing` is an action property over the whole cycle: per-row error handling could break it,
  and only Postgres's aborted state prevents that.
* `AlertsStoredUnlessAborted` and `DropAlertedOnce` say how far the finding of `snapshots_aborted`
  goes: without an aborted transaction alerts are about stored rows, and never twice.
* `StoredThenAlerted` says that every stored whale is alerted on unless a failure cost precisely its
  alert (`lost`): one failed insert does not keep the others from theirs, at whatever time it comes.
* `PositionsAreTrue` and `AlertsAreCrossings` hold while `Clean` (the rows are in the order of their
  events, none twice) and `NoTies` (no account has two stored events of one ledger) do. Crashes, failed
  inserts, lost alerts, skipped events and restarts are all inside; a replay - after a crash between a
  row and `SaveCursor`, or a missing page cursor - counts its events twice, which is what the code does, and
  so lies outside. `Net`, what the properties compare with, is computed from the whole log: a balance held at zero
  is the most that the latest events, however many, add up to. It shares nothing with `Apply`.
* Some hazards are the code's own way, and the properties say how far they go instead of excluding
  them: an alert lost with the answer of its commit (`lost`), an event whose insert failed (it
  is passed, and missing from the position), events a cold start that moves passes by (`start`), a
  position without an LTV counting as below every band, an edit of the bands moving a position
  between bands without an alert, a listing that keeps failing keeping payments waiting.
* `DeliveredExactly` compares what was posted to with what the job found due, and, as long as only
  posts fail and nobody edits channels, with the minima configured at the start (`Configured`).

* `BandsOfNewest`: band rules overwrite one another in listing order while thresholds are chosen by
  id; both come to "the newest enabled rule" only because the query orders by id.
* `Settles` is what "a real-time nicety, not a dependency" (`events.rs:14-18`) means: after any
  losses the page shows the table and stays so. Before that it may go back: an answer that is
  overtaken shows an older list until the next poll.
* `AnswersFresh` does not promise answers younger than the TTL: a request that reads, waits and then
  stores adds its wait, and the history variable `slowest` says how much. It does say that these waits do not
  add up, although slow requests may overwrite newer entries again and again.
* `AsReference` compares the search with the definition it is meant to compute, for every order of
  the hash maps. "Deepest" is what the code takes for it: the larger reserve of the known asset. In
  later hops these are reserves of different assets, compared by their numbers.

Two statements of the docs differ from the code in ways no run is spent on: README.md:221 says
webhook delivery has already happened by the time an alert is visible to acknowledge, but the row
comes first (`Insert` precedes `PostWebhook`); and `pricing.rs:9-11` says assets that never pair
with XLM go unpriced, which `ingest_prices` no longer keeps to.

## 5. Proofs
`PaymentIngest_proofs`, all obligations checked by tlapm:

* `TypeCorrect`: `Spec => []TypeOK`, for any set of processes. The inductive invariant is `TypeInv`:
  `TypeOK`, that the cursor and what was fetched lie in the log, and `StageOK`, where a cycle
  stands at each stage (pages below the cap while fetching, something pending while alerting).
* `OnlyWhalesWithMany`: for any set of processes, a row is of a payment that was made and that some
  rule calls a whale, and only payments with a row have alerts. The inductive invariant `RealInv` adds
  the same of what each process holds pending.
* `FeedCorrect`: with one process, `NoWhaleMissed`, `NoDuplicateWhale`, `NoFalseWhale` and
  `AlertsFollowRows`; the last three also stand alone as `WhalesStoredOnce`, `OnlyWhalesStored` and
  `AlertsOfRows`.
* `CursorMonotone`: with one process, `CursorNeverRetreats`.
* `Refinement`: with one process, `Spec => ImplementsFeed`.

The inductive invariant of all that is about one process is `FeedInv`: `RowsOK` (every row is of a passed payment
and there at most once, every certain whale passed is there), `CursorOK` (seed and cursor) and
`CycleOK` (the process's `at` and `hi` against the cursor, what is pending against what lies between
them; while alerting, that the pending payments are stored and not alerted on). The properties
alone are not inductive: that a commit adds each row once needs to know that `pending` lies
strictly after the cursor, and that an alert is not repeated needs to know that it is still pending.
The assumptions are those named in `PaymentIngest` (`ConstantsAssumption`); "one process" is an
assumption of the theorems. With two processes these results do not hold: both read the same cursor.

`RateLimiter_proofs`, all obligations checked by tlapm, for any number of clients and requests:

* `LimiterTypes`: no bucket is above the burst or below zero.
* `LimiterBound`: `WindowBound`. Its inductive invariant is `BudgetOK`: for each allowed request,
  the tokens left and what was spent since it never exceed a burst and what the rate added since.
* `LimiterExact`: `RefusedOnlyAtLimit`. Its inductive invariant is `NothingLost`, the converse: for
  some allowed request they reach it, unless the bucket is full. `WindowBound` and
  `RefusedOnlyAtLimit` speak of requests only; neither is inductive without the bucket.

`LimiterBound` assumes `HourRefills` (the burst is at most an hour of the rate), as `WindowBound`
says: with a larger burst a client that comes back after an hour finds a full bucket it has not
earned. `LimiterExact` needs no such assumption.

`ResponseCache_proofs`, for any number of requests and processes, every TTL and every behaviour of
Redis:

* `CacheTypes`: the types, among them that no answer is of a version yet to come.
* `CacheFresh`: `AnswersFresh`. Its inductive invariant adds `ComputedFresh` (what a request computed
  was current when it read), `LateFresh` (so was what may still be written) and `EntryFresh` (an entry expires no later than TTL and the longest
  wait after what it shows was replaced), which carries the bound from a store to a later hit.

`LiveAlerts_proofs`, for any alerts, channels, requests, capacity, faults and edits:

* `AlertTypes`: the types of both modules; a page shows and acknowledges only what the table holds.
* `DeliveryExact` and `DeliveryStored`: `DeliveredExactly`, `AnnouncedIsStored`. The inductive invariant
  is `DeliveryInv`: the job records the alert raised last, which has no row before its insert, what
  it has tried lies within what it owes, from the webhook on, and what it owes is what the
  channels of the start ask for while nobody has touched them.
* `NothingAckedUnseen`: `UnseenStaysNew`. The property is not inductive without where the ids of an
  acknowledgement come from: what is shown was seen, and an operation's ids were shown (`PageInv`).

`PriceDiscovery_proofs`, for every set of listings, number of hops and order of the maps:

* `PriceTypes`, `PricesAreReal` and `PricedOnce`: `TypeOK`, `RoutesAreReal`, `OneRowEach`. The inductive
  invariant adds `FoundRests` - what a hop has found is not priced yet and balances a pool with a
  price of an earlier hop - and the hops the prices of a scan and of a store can be of. That a ratio
  balances its pool is `RatioBalances`, arithmetic over all naturals.

* `PricesAsReference`: `AsReference`. The inductive invariant is `RefInv`. `PricedOK` says that each
  price comes from the pool the reference chooses for its distance. `ReachOK` says how far the call has
  come: a scan has found, of each asset, the deepest link to what it has seen so far (`Seen`: all of
  the hop's assets in the pools passed, those no longer in `known` in the pool at hand), which is
  what makes the order of the hash map irrelevant; a store ends with exactly the next distance. A hop
  that finds nothing may end the search before `MaxHops` because the distances then stop growing
  (`Stalls`).

`SnapshotIngest_proofs`, for any pools, tokens, levels, rule tables, cycles and faults:

* `SnapshotTypes`: the types.
* `WritesAllOrNothing`: `AllOrNothing`. It rests on `TxOK`: an open transaction has staged exactly
  the well-formed items it is done with, so that at the commit, where nothing is left to do, these
  are all of them.
* `AlertsAreOfStoredDrops`, `DropsAlerted` and `DropsAlertedOnce`: `AlertsStoredUnlessAborted`,
  `NoDropMissed`, `DropAlertedOnce`. The inductive invariant `IInv` adds `HistoryOK` (snapshots are of
  ever later cycles, and none is of the cycle still open), that each pending alert is of a drop from
  the last stored snapshot and each drop of a staged item is pending (`TxOK`), and what carries this
  over the commit (`AlertOK`: stored and not recorded yet). That an item is alerted on once per cycle
  (`RecordedOnce`) and that consecutive snapshots are unique make an alert unique per drop.

`LendingIngest_proofs`, for any accounts, prices, pages, rule tables and a log of any length:

* `LendingTypes`: the types; no position is negative.
* `CursorSkipsNothing`: `NoEventSkipped`. The inductive invariant is `CursorOK`: what lies between the
  latest cold start and where the cycle is has been tried, not only what the cursor has passed.
* `PositionsAreSums`: `PositionsAreTrue`. The inductive invariant is `SumsOK`, over `RowsOK` and
  `LogOK`: each row's position is the running sum, clamped at zero, of the stored events up to its
  own (`Sums`, which is how the code computes it). That this is what the property's `Net` says is
  `SumsAreNet`; it rests on `BalanceMoves`: one more event moves the most that the latest events add
  up to by its amount, and not below zero.
* `AlertsExactlyCrossings`: `AlertsAreCrossings`, in the same form as `AlertsOK`, with the event
  whose alert is being recorded as the one exception (`Pending`).
* `NewestRuleWins`: `BandsOfNewest`, for tables of any length: applying the rules one after the other
  comes to the newest enabled one for each band (`BandsAreNewest`).

The flows and sums of `LendingIngest`, the bands of `AlertRules` and the distances of `PriceDiscovery` are
recursive functions. `Recursion` proves, from the well-foundedness of the naturals, that such a
function exists and that a set of counterexamples has a least element. With these two facts
what a recursive function computes is proved for every argument without an induction rule.

The assumptions are the `ASSUME`s of the modules, and of the two groups of theorems named above "one
process" and `HourRefills`. Constants are typed, markers (`NoCursor`, `Unpriced`, `Malformed`) are
distinct from the values they stand beside, rule tables are finite sequences the API accepts; nothing else.

Writing the proofs changed the models in three places. Three `CASE`s (`ApplyBand`, `Risk`,
`SeverityOfWhale`) had guards that overlapped, which TLC resolves by taking the first and TLA+ leaves
open; they are chains of `IF` now, as in the code. The folds of `AlertRules` and `LendingIngest` are
recursive functions. And `Unpriced` had to be assumed different from an offer as well as from a price.

Only model-checked: liveness (`EveryWhaleStored`, `StoredThenAlerted`, `CycleEnds`,
`EveryEventPassed`, `EveryRequestEnds`, `Settles`), which needs `ENABLED` and is beyond the prover.
Every other property of a passing run is a theorem.

## 6. Not modelled
* A payment or pool that parses on no try: Horizon's amounts always parse; a malformed pool is.
* A pool or token listed twice in one crawl, or absent from it.
* A clock that steps back between cycles: the order of snapshots is that of cycles.
* A stored lending cursor beyond the RPC node's retention: the node refuses it at every cycle, and
  nothing in the code gets it out of there.
* Amounts of Blend events that are not positive: Blend emits none, and the code does not check.
* Which alerts the page's own filters hide: `seen` holds all the rows an answer brought, so "nobody
  was shown it" is about the page's list and not about the part of it in view.
* The rounding of `f64` tokens, and how many buckets the limiter keeps (the sweep bounds nothing: every
  client active within the hour stays).
* What a webhook receives and answers; the JSON of a notification, of which the page uses nothing.
* Filters of the alert list by kind, pool and token, and pages other than Alerts: they poll in the same way.
* The rounding of `Decimal` in prices, and of reserves that Horizon gives in seven decimals.
* A second acknowledgement begun on one page before the first is answered; `Other` stands for it.
* Two API processes with a bus each: a browser is connected to one of them, the other does not matter to it.
* The read API, search, watchlist, configuration, authentication and metrics: they keep no state
  that steps. `liquidations` reads three times without a transaction, and its answer may be of three moments.

## 7. What could come next
The modules planned are written, and every safety property of a passing run is proved. Worth adding:

1. An abstract specification of a snapshot cycle (one atomic step of all snapshots and the alerts
   they owe) that `SnapshotIngest` implements.
2. The page's filters in `LiveAlerts`, so that `UnseenStaysNew` speaks of the rows in view.
