# A TLA+ model of the trading desk

This directory models the parts of the repository that move money, keep
records or feed prices: the daily loss limit and the lock it puts on new orders,
the strategic controller with its directive, the tactical executor with its
day-risk book, sizing and stops, the console's trade decision, the signal
pipeline to the HTTP execution worker, the tick feed with the processes around
it, the batched tick writer, and the audit of orders. Each module is a
translation of Python code under `src/`; `PROJECT.json` names, for every
definition, the lines it stands for. TLC checks small instances; the TLA+ proof
system proves the safety properties for every value of the constants.

All paths below are relative to `src/`.

## 1. The system

The desk is a set of processes started by PM2 (`ecosystem.config.js`, which
restarts what dies) around one Redis, one TimescaleDB and one broker account
(Dhan, or Zerodha). A second deployment splits the broker access off into an
HTTP execution worker with a local client.

| Component | State it keeps | Operations | Talks to |
|---|---|---|---|
| terminal controls (`dashboard/components/risk_controls.py`) | Redis `terminal:controls`, one JSON blob | load, patch, store whole; emergency square-off; re-enable | every process that trades |
| circuit breaker (`services/circuit_breaker.py`, run by `workers/auto_squareoff.py`) | `_tripped` in memory, `risk:circuit_breaker:tripped` | poll P&L; on a breach cancel, flatten, lock, record | controls, broker |
| trade console (`dashboard/Trade_Console.py`) | one Streamlit session per tab | HALT toggle, square-off flag, risk panel, on every render | controls |
| order guard (`services/order_guard.py`) | none | check the lock, price a LIMIT order, call the broker, audit | controls, broker, `orders:audit` |
| tactical executor (`services/tactical_executor.py`) | the tick's copy of the book; `agent:tactical:stop_cooldown:*` | each second: stops, then perhaps one entry | directive, book, order guard |
| day-risk book and hunt (`services/intraday_hunt.py`) | `agent:console:day_risk`, `agent:console:today_entry_lock` | budgets, sizing, strike choice, buy and book | order guard |
| strategic controller (`services/strategic_controller/`) | `agent:strategy:directive` with a time to live | gather, classify, score, limit, decide, publish | controls, book |
| database writer (`database/db_writer.py`, in `main.py`) | buffer, connection, flush thread | enqueue, flush, requeue, drain at shutdown | TimescaleDB |
| tick listener and bus (`ingestion/`) | bounded publish queue | broker feed to ZeroMQ | all tick readers |
| chain cache, greeks engine (`database/chain_cache.py`, `workers/greeks_engine.py`) | `option_chain:*`, `tick:{token}` | apply ticks, enrich ticks | bus, Redis |
| execution worker (`execution_worker/`) | paper orders and positions in memory | order, cancel, positions, square off all | broker |
| remote client and signal pipeline (`local_app/`) | none | retry HTTP calls; score, risk-check, send | execution worker |
| supervisor, launch, premarket (`main.py`, `launch_trading_day.sh`, `cron_premarket.sh`) | child processes | start, watch, stop all | everything |
| preflight, health, clock (`services/preflight_check.py` and others) | none | gate the launch | Redis, DB, broker |
| order audit (`dashboard/components/orders.py`) | `logs/execution_orders.jsonl`, `orders:audit`, `orders:audit:list` | append to all three, load from the first that has rows | order guard, emergency, console |
| console runtime (`dashboard/components/console_runtime.py`) | one render's inputs | day grade, session phase, trade decision | Redis, broker |
| OI tracker, research, dashboard pages, secrets, exports | files, tables, caches | reports and screens | |

### What is hard about it

* **Shared blobs without transactions.** `terminal:controls` is loaded, patched
  and stored whole by the breaker and by every console render, with nothing
  between the load and the store. The day-risk book has one writer, but is
  loaded before the stops and stored after them.
* **Check, then act.** The order guard reads the lock and then calls the
  broker. The directive is read before the stops and used after them. The
  budget is read long before the sleeve is booked.
* **Errors that read as "nothing there".** A failed Redis read answers defaults
  (no lock, no book, no cooldown); a failed controls store is only logged; a
  failed read of Dhan's positions is an empty list.
* **Accepted is not filled.** The broker's acceptance of a limit order is all
  the code ever looks at; a lost answer counts as a refusal.
* **Crashes.** PM2 restarts a process between any two of its steps; a trip, a
  stop or a booking is then half done.
* **A thread that outlives its join**, sharing a connection, that is a
  transaction, with the final drain.
* **Requests that arrive late or twice.** A POST without an answer is sent again;
  nothing in it tells the worker so.
* **Bounded and lossy queues.** The listener's queue, the bus and its slow
  joiners drop ticks; two processes store the same price key at their own pace.
* **Two clusters in one Redis.** The jobs that prepare a day flush keys which
  yesterday's processes are still writing.
* **Numbers that cross processes.** A limit goes from the controller through
  JSON, where zero is falsy, into a confidence and back into a weight; lots,
  stop and limit prices are rounded three ways.
* **Three copies of one record.** An order's record goes to a file and twice to
  Redis; each write may fail alone, a file line may be cut off, and a reader
  looks at one copy only.
* **Deadlines and expiry.** One `trading_disabled_until` governs three flags;
  cooldowns, entry locks and directives are keys with a time to live.

### What makes each component correct

* Loss limit: a breach that lasts ends with placement blocked and the book
  flat; until the day ends nobody but the operator, with the re-enable button,
  opens it again; little slips through.
* Executor: a stop sells a sleeve once; a sleeve below its stop is sold; what
  was bought is under a stop; the day's caps hold although they are checked
  early; the book never goes back.
* Writer: the table is the accepted ticks, in order, each once; shutdown leaves
  nothing behind.
* Controller, sizing, console: an entry follows a kill switch by a bounded time
  only; a sleeve and a day risk what confidence and budget grant, after all
  rounding; the strike bought is never in the money; the screen says what the
  executor does.
* Signal path: an order per attempt at most, honest answers, a paper book that
  adds up, a square-off that covers every position it has read, an answer to
  every signal.
* Feed: what is quiet shows the newest tick that was not lost, no reader ever
  sees the price go back, the chain of an underlying the bootstrap has rebuilt is
  today's, a stop drains the queue, and one death brings the whole cluster back.
* Audit: the trail only grows, nobody is recorded twice, COMPLETE is true; a
  page shows what was recorded, or newer records, or a failure is to blame.

## 2. The modules

| Module | Models | Checked by |
|---|---|---|
| `TerminalControls` | the controls blob as a value, and its updates | used by `RiskLock` |
| `RiskLock` | breaker, console sessions and order guard over the blob | `RiskLock_*` |
| `TickLog` | the abstract promise of the tick writer | refined by `DbWriter` |
| `DbWriter` | the two threads of the tick writer and the connection | `DbWriter_*` |
| `TacticalDesk` | the executor, its book, cooldowns and the broker | `Tactical_*` |
| `StrategicPolicy` | the controller's judgement, from facts to a directive, as operators | used by `EntryDesk` |
| `SleeveSizing` | from a directive to one priced order, as operators | used by `EntryDesk` |
| `EntryDesk` | controller, executor and console around the directive and the book | `EntryDesk_*` |
| `ExecWorker` | the execution worker's account and handlers | used by `SignalPath` |
| `SignalPath` | gate, client, link, worker and panel | `SignalPath_*` |
| `HotRegister` | the abstract promise of a hot price | refined by `FeedCluster` |
| `TickFanout` | listener, bus, chain cache and greeks engine | used by `FeedCluster` |
| `FeedCluster` | the processes around them, launch and premarket | `Feed_*` |
| `AuditTrail` | the abstract promise of the order audit | refined by `OrderAudit` |
| `OrderAudit` | the guard's broker call, and the record in file, stream and list, written and read | `Audit_records` |
| `*MC` | the sets and records the instances are made of | |
| `*_proofs` | theorems and proofs about the module they extend | tlapm |

### RiskLock

`controls` is the Redis blob with the fields the code reads: the three flags,
the deadline, the square-off flag and `order_placement_locked`. Deadlines are
always 23:59:59 IST of some day, so times are day numbers. Every actor has a
step label `pc[a]`, the blob it has loaded `base[a]` and the deadline `eod[a]`
computed when its emergency trigger began; a load and the store after it are
two steps, and so is each broker call between them. `Load` answers defaults and
`Save` is dropped when Redis fails.

The breaker's trip is `PollAndTrip`, `CancelPending` (each order's cancel on its
own) or `CancelRaises`, `ExitAll`, `SealBroker`, `EmergencyLoad`,
`EmergencySave`, `LockLoad`, `LockSave`, `RecordTrip`, in the order of
`trip_circuit_breaker`; `BreakerRestart` may cut it anywhere. The emergency
button runs the same `Trigger` in a session. Streamlit may cut a render short at
any widget and reruns the main panel alone, so a session's blocks come in any
order, and the value the HALT toggle stores is left open: a keyed widget may
show an older value than Redis. Orders pass `CheckPlacement` and `PlaceOrder`,
one at a time because the executor is one loop, and the broker may fill what
rests.

Four variables are history. `lost` says that some store was dropped or
overwrote a blob newer than the one it was made from. `lockedOn` is the day of
the last placement lock that the operator has not taken back by re-enabling
trading: `LockHolds` speaks of that day only, and of neither the next morning nor
what the button should do, on which the code and its documents disagree (section
4). `late` holds the orders
accepted after the last trip's cancel step, `slipped` those accepted while the
lock was set. The safety properties say what the code guarantees *except* for
lost updates; the run `RiskLock_lostupdate` shows what a lost update does, and
that the exception is needed.

### DbWriter and TickLog

`Swap`, `EnsureConnection`, `Connect`, `Insert`, `Commit`, `Rollback` and
`Requeue` are the steps of `flush()` for either thread: the flush thread in its
loop, and the caller draining in `stop()`. A connection carries at most one open
transaction `txn[c]`, whoever executes on it; a failed statement aborts it, and
`COMMIT` of an aborted transaction rolls back without raising, as PostgreSQL
does. A flush may begin at any time; batch size and interval only decide when.
`TickLog` says what this is for: the table is a growing prefix of the accepted
ticks. `StoresInOrder` is that specification under the mapping `stored <- db`.

### TacticalDesk

A tick is `StartTick` (read the directive and the book), one `PassOver`,
`SellStop`, `StopRefused` or `StopUnconfirmed` per sleeve not yet marked,
`SaveStops`, and under a directive that allowed entry `NoEntry` or `PlanEntry`,
`PlaceBuy` (or a refusal), `LockEntry`, `BookSleeve`. `TickFails` is an exception
the loop logs and forgets, `Crash` the death of the process; both lose `mem`,
the marks made so far, and `plan`. Prices, the controls, directives and
cooldowns change on their own; what becomes of an accepted BUY at the broker the
code never reads, and is no step. A stop's SELL is refused while the controls
block it (`blocked`), and also when the security trades at 50 paise or less
(`floored`), where `compute_protected_limit_price` finds no positive limit;
`StopExits` names both. Sleeves are tried in any
order, a superset of the list order. Whether a BUY fits is `CanHunt` and
`FitsBudget`, the two budget tests of the code; strike and size are any that
fit. Amounts count in units of the 200 rupees below which `can_hunt` is false.

A *fault* is a step of the executor that meets an outage of Redis or the
broker, or a refusal of the broker not due to the guard. What it does to the
step is spelled out in each action; what every fault has in common is that it
takes one from the budget `MaxFaults`. `spent`, `stray`, `sells` and
`accepted` are what the broker knows, independent of the book.

The cap of `services/tactical_executor.py:228-234` on the sleeve weight is not in
the model: under a directive that allows entry the published weight is never
below the one `size_sleeve` uses, so the branch is not taken.

### StrategicPolicy, SleeveSizing and EntryDesk

`StrategicPolicy` is the graph of `strategic_controller/graph.py` without the
reading: `Regime`, `Sentiment`, `RiskLimits`, `Stance`, `PreferredSide` and the
`Directive` they make. Numbers are integers, each in a unit as fine as the code
rounds (hundredths, thousandths, ten-thousandths). `ReadBack` is what
`load_directive` makes of a zero weight. `SleeveSizing` goes on from there:
confidence to weight, weight to budget, budget to lots, stop and limit price, and
the first strike by distance that fits.

`EntryDesk` puts them between three processes. The controller's cycle is one
action per part of `gather_market` that has its own exception handler
(`StartCycle`, `ReadControls`, `ReadChain`, `ReadPositions`), then `Publish`;
`CycleDies` may cut it anywhere. A directive carries the time at which the cycle
*began*; the clock moves between any two steps. The executor loads a directive
and later plans from it (`LoadDirective`, `PlanEntry`), then the order is taken
and booked or not (`PlaceEntry`). The console loads and later composes;
`Compose` is `_compose_trade_decision`, whose phase, lock and capital are left
open. `since` and `misread` are history: since when the world forbids entry, and
whether some failed read was taken for a harmless value. The properties that a
misread would break say so.

The composition with `TacticalDesk` is by interface: there the permission to
enter is any (`Publish` of that module) and the plan is any that passes the
budget tests; here both are computed, and stops and crashes in the middle of a
booking are left to `TacticalDesk`.

### ExecWorker and SignalPath

The worker's handlers never await, so one request is one step, and each handler
is the set of its outcomes: account, answer, and whether a broker call failed.
`Serve` takes one of them. A broker fails in its own way: Kite raises, which is
a 500; Dhan may also report a failure in its payload. Placing an order, that is
a 400, behind which the order may have been booked all the same; reading the
positions, it is not noticed, and an empty list is answered with a 200, so that
a square-off finds nothing to do and answers ok. A live account without a
supported broker or credentials (`cfg.ready`) refuses every call with a 400. A
client call is an attempt number; `AttemptEnds` is the loop of
`RemoteClient._request`, with the caller's reaction in `Completed`. `GiveUp`
ends an attempt without an answer and may leave its request on the link, where
it stays as late as it likes. `placed`, `doubtful` and `masked` are history: the
orders booked for a signal, the signals with an attempt nobody answered, or a
5xx did, and those with an order behind a 400 of Dhan. `AnswerIsHonest` excepts
the last two by name. Prices, and with them the average price and the profit of
a paper position, decide no branch and are left out; positions are signed
quantities.

### TickFanout, FeedCluster and HotRegister

A tick is its number in the exchange's order. `Feed`, `Publish`, `Link`, `Take`
and the two consumers' stores are one step per message and store, so the two
writers of a tick key race as they do in Redis. The chain is that of one
underlying, one token per series of `TRADE_TOKENS`, in Redis (`chain`) and in the
cache process (`mirror`). `Bootstrap` overwrites it; `BootstrapSkips` is a
bootstrap that finds no token, expiry or strike of this underlying and passes it
over, while `ChainCache` still loads whatever chain of it Redis has (the replay
of the other underlying may then put a tick into it); `BootstrapFails` is one that
raises. What was passed over or failed is `skipped` or `unseeded`, and nothing is
claimed of such a chain.
`FeedCluster` adds `main.py`'s start, watch and stop, PM2's restart, and the two
jobs, each step by step: what they flush, and whom they restart. `HotRegister`
says what this is for: between resets the price shown only moves to newer ticks.
`ChainImplementsRegister` is that specification with the chain's price for
`shown`, of a chain the bootstrap has not passed over (`Shown`). `lostNewest`,
`unseeded`, `skipped` and `clearedAt` are history, and name what excuses an old
price or a missing chain.

### OrderAudit and AuditTrail

A call is an order past the guard's checks, or an emergency broadcast. `stage[c]`
is what it does next and `row[c]` the record it writes: `PlaceOrder` is the
broker call with every way it can end (`Outcomes`), `Emergency` the broadcast's
own record (a call is one or the other), and then come `WriteFile`, `XAdd`,
`LPush`, `LTrim`, one step each, because executor, hunt and console sessions
share the three places. A record is its call, its id and its status; the
remaining fields are shown and decide nothing. Of an id it matters whether it is
an order's, or a prefix with the second of the clock, which two calls may share.

The file is a sequence of lines. `WriteFails` leaves nothing or a part of the
line behind (`Torn`), and what is written behind a torn line becomes part of it
(`Junk`). A failed Redis command may have been done or not (`RedisFails`), and
`Crash` kills the process of a call anywhere, in the broker call too. Redis itself
is taken to keep its data. The approximate `maxlen` of the stream may keep more
than its length, never fewer. A Dhan answer that reports success without an
order id counts as an accepted order, as it does in the code; behind a failure
that Dhan's library reports, and behind any exception, there may be an order or
none; Zerodha's library returns an id or raises.

A page reads in up to three steps (`ReadStream`, `ReadList`, `ReadFile`), and any
of them may fail; a page without a Redis client is one whose two Redis reads
fail. `load_order_audit` keeps nothing between renders, so a page is rendered
once, and several renders are several pages. `taken`, `noFile`, `noRedis` and a
page's `before` are history.

`AuditTrail` says what this is for: a set of records that only grows, one for a
call at most, none before the outcome, COMPLETE only of what the broker has
taken and PENDING, the emergency's status, only of what is no order.
`TrailImplemented` is that specification with the readable lines of the file for
`trail`. The converse does not hold and is not promised: a taken order may have
no record, or one that says REJECTED.

## 3. The runs

`CHECK_DEADLOCK FALSE` where the system may stop: when the bounds are used up and
the market stands still. `EntryDesk_rules` checks deadlock: its loops never end.

* `RiskLock_safety` (holds: `TypeOK`, `LockHolds`, `FewSlip`,
  `ResidualIsLate`). Breaker, one console session and the order guard with two
  orders over two days, with one failed Redis access: placement stays locked on
  the day of the trip whatever is clicked but the re-enable button, at most one
  order slips past the lock, and nothing older than the trip is left working.
* `RiskLock_liveness` (holds: `BreachEndsInTrip`). Under a breaker that keeps
  polling, a lasting breach ends with placement blocked and the positions taken
  before the trip flattened, whatever the console does and despite one broker
  failure and one restart.
* `RiskLock_lostupdate` (refuted: `TripLocksForTheDay`). A console render that
  loaded the controls before the trip stores its stale copy after it, and the
  breaker's lock is gone on the same day.
* `DbWriter_threads` (holds: `TypeOK`, `Conserved`, `StopDrains`,
  `StoresInOrder`, `EventuallyStored`). Writer, connection and both threads
  with three ticks, two faults, one join that times out and one commit in
  doubt: the table is a growing prefix of what was accepted, nothing is
  dropped, only a doubtful commit repeats rows, stop() drains, and ticks are
  stored in the end.
* `DbWriter_overlap` (refuted: `NoSilentDrop`). A flush thread that outlives
  the five-second join shares connection and buffer with the final drain, and
  rows are lost without an error that names them.
* `Tactical_day` (holds: `TypeOK`, `RiskCapHolds`, `NoSleeveForgotten`,
  `SoldOnce`, `OneStray`, `BookGrows`, `StopExits`). Two BUYs of one security,
  each of one or two units of risk against a cap of three, with one outage and
  one crash: the cap holds, an accepted BUY is left without a stop only by a
  crash, a sleeve is sold once but for a crash or an outage, the book never
  shrinks, one BUY at most follows a directive that turned, and a lasting stop
  is sold once the guard takes the order and its price leaves room for a limit.
* `SignalPath_orders` (holds: `TypeOK`, `PlacedPerAttempt`, `AnswerIsHonest`,
  `PositionCap`, `PaperBookAddsUp`, `SquareOffCovers`, `SignalAnswered`). Two
  signals in two symbols and one square-off or cancel, at each broker and in
  each refusing environment, with one lost or late attempt, raising broker call
  or worker restart: one order per attempt at most, answers that are honest but
  for what was in doubt or hidden behind a failure of Dhan, a square-off that
  covers what it has read, a position cap exceeded only by what the gate could
  not see, a paper book that adds up, and an answer to every signal.
* `SignalPath_reversal` (refuted: `SquareOffOnlyCloses`). On Zerodha a
  square-off whose answer is lost or a 500 is sent again while its first orders
  rest: both fill, and the position is turned round.
* `SignalPath_falseok` (refuted: `OkMeansCovered`). On Dhan a square-off whose
  read of the positions fails takes the failure for an empty list and answers
  ok, with every position open.
* `Feed_cluster` (holds: `TypeOK`, `LosslessIsCurrent`, `ChainIsTodays`,
  `StopDrainsQueue`, `ChainImplementsRegister`, `DeathRestartsAll`). Three
  ticks through listener, bus, chain cache and greeks engine into Redis, while
  two launches or premarket jobs flush and reload the cluster and one thing
  fails: prices settle at the newest tick that was not lost and never go
  backwards, the chain of an underlying the bootstrap has rebuilt is today's, a
  stop drains the queue, and one dead child restarts all.
* `EntryDesk_rules` (holds: `TypeOK`, `SleeveWithinConfidence`, `DayRiskCap`,
  `RoundTripLoss`, `OneVoice`, `KillBoundsEntries`). From facts to priced
  orders, with three sleeves, a clock of three ticks, and two of the world's
  moves or outages: how long a kill switch or a loss takes to stop entries,
  what a sleeve may risk, where its stop and limits lie, and whether console
  and executor agree.
* `Audit_records` (holds: `TypeOK`, `TrailKept`, `ReadsBack`,
  `TrailImplemented`). Two calls, each an order or an emergency, write their
  records while a page reads, with one row to show, stream and list of one, two
  seconds and three failures: the log is a trail that only grows and tells the
  truth, a torn line costs one record at most, and what was recorded is shown
  or what hides it is named.

### Bounds and why they are enough

Every bound is a constant named `Max...` or `SleeveRisk`, counted by a variable
of its own, so that a property can say "unless something failed" by naming the
count.

* One console session is enough for every interleaving the safety properties
  of `RiskLock` distinguish: its load and store are separate steps, so it
  already races with the breaker. Two orders are needed to see one slip and
  another refused, and a cancel that misses one. Two days are needed for an
  expired deadline. The theorems hold for any number of each.
* Three ticks let a batch, a later tick and a requeue be told apart in every
  order; two faults break a statement and the connection made after it.
* One join that times out and one commit in doubt are in the same run of
  `DbWriter` as the good days; each property names which of them it excludes.
* `EntryDesk`: a clock of three ticks with a directive fresh for one lets a
  directive be fresh, at its limit and stale in the same behaviour. Three sleeves
  are needed before the 70 percent cap bites; of two events one can arm the kill
  switch and the other fail a read. The markets have every regime, both sides, no
  ranked strategy and confidences below, inside and at the top of the sleeve's
  range; of the ladders one fits two lots and one is too dear at the money. The
  theorems hold for any of them.
* `SignalPath`: two signals in two symbols against a cap of one position make the
  gate refuse; one fault is enough for a retry, a late request and a restart, and
  three attempts are the code's own bound. The environments are the three
  accounts with everything in place, the two live ones without a supported broker
  or credentials, and four that stop an order of the paper account: secret not
  configured, secret that differs, dry run, and a trailing stop that is required
  and not armed. The theorems hold for any set of them.
* `FeedCluster`: three ticks through a queue of two and sockets of one overflow
  both; two series and two jobs let yesterday's cluster meet today's flush; one
  fault kills any one process, drops any one message, or makes one bootstrap fail
  or pass the underlying over.
* `OrderAudit`: two calls meet in every order at the three places, each an order
  or an emergency. With three failures a torn line is followed by a record it
  swallows while the other places and the page may fail too. A page with room
  for one row, and a stream and list of length one, overflow at the second
  record. Two seconds give ids that collide and ids that do not.
* Two sleeves of one security share a cooldown; two BUYs of two units of risk
  exceed the cap of three, and one of each is exactly inside it. The cap on the
  number of sleeves bites in `EntryDesk_rules`; that it holds in `TacticalDesk`
  for any number of BUYs is `SleeveCapAlways`.

### Fairness

* `RiskLock`: weak fairness of the breaker's steps only. Its thread loops until
  the process ends (`CircuitBreaker._run`), PM2 starts it again, and the bounds
  on faults and restarts say that an outage ends. Nothing is assumed of the
  console, of the orders or of the market.
* `DbWriter`: the flush thread is scheduled, and the caller once `stop()` has
  begun. Ticks and shutdown come when they like.
* `SignalPath`: the client's loop runs and the worker serves what has reached it.
  A lost request is an attempt given up, which the timeout of the HTTP client
  guarantees. Nothing is assumed of signals, panel, exchange or late requests.
* `FeedCluster`: the supervisor, the publisher thread and the cache process are
  scheduled, and PM2 starts what exits. Nothing is assumed of ticks, jobs, links
  or faults.
* `EntryDesk` and `OrderAudit` have safety properties only: nothing obliges
  anyone to trade, and a record that fails is never tried again.
* `TacticalDesk`: `run_forever` takes its next step, and a Redis key with a time
  to live expires. Prices, directives and the controls are free. Note that weak
  fairness of the expiry is enough although the stop handler sets the same key
  again: only an attempted stop does, and that is what the property waits for.

## 4. What does not hold

Each violation run checks one sentence of the repository.

* `TripLocksForTheDay` (run `RiskLock_lostupdate`). Every console render loads
  terminal:controls, patches it and stores it whole
  (dashboard/Trade_Console.py:177-180); a load before the breaker's stores and
  a store after them takes the lock back within the day.
  services/circuit_breaker.py:238 says: "Persist hard lock so agents cannot
  place new orders for the day."; dashboard/Trade_Console.py:178 says the patch
  "avoids stale session overwrite".
* `NoSilentDrop` (run `DbWriter_overlap`). When the flush thread outlives the
  join of stop(), both threads use one psycopg2 connection, so a failed
  statement of the drain aborts the flush thread's executed but uncommitted
  rows and its commit() returns without error; rows requeued after the drain
  are lost as well. database/db_writer.py:187 says: "Put rows back so a
  transient outage does not drop data silently".
* `SquareOffOnlyCloses` (run `SignalPath_reversal`).
  execution_worker/broker_adapter.py:517 says square_off_all will "Close all
  open positions immediately (paper or live)". Its live orders rest until the
  exchange fills them, the client retries the POST on a lost answer or a 5xx
  (local_app/remote_client.py:88-107), and the second pass reads the same
  positions and sends the same orders again: when both fill, a long has become
  a short of the same size.
* `OkMeansCovered` (run `SignalPath_falseok`). _positions_dhan does not look at
  the status of Dhan's payload: a failure has no rows and becomes an empty list
  (execution_worker/broker_adapter.py:353-370), so square_off_all sends
  nothing, collects no error and answers ok with closed 0 (518-546) while every
  position is open. execution_worker/main.py:175 says of the route: "Emergency
  flatten — close all open positions immediately."; the panel shows a success
  (dashboard/app.py:160-163).

Met while modelling, and checked in no run:

* `order_placement_locked` and `risk:circuit_breaker:tripped` have no expiry and
  no code clears them: after one trip orders stay refused, and the breaker never
  trips again, until somebody edits Redis. The lock is meant "for the day"
  (`services/circuit_breaker.py:238`) and to the end of it (`README.md:203`,
  `docs/ARCHITECTURE.md:251`), and the panel offers "Re-enable trading for
  today" and answers "Trading re-enabled."
  (`dashboard/components/risk_controls.py:296` and `:309`), but the next morning
  and that button both leave the bit in place. `LockHolds` therefore claims the
  day of the trip only, up to the button.
* A trip on Zerodha flattens nothing: the flatten is published on a channel no
  process of the repository subscribes to.
* The HALT toggle arms a kill switch governed by whatever deadline an earlier
  emergency left in the blob; when that is past, HALT stops nothing.
* The order guard refuses a protective SELL as it refuses a BUY, while trading is
  disabled or placement locked (`services/order_guard.py:173-174`): the stop of a
  sleeve is then tried again and again, and its risk stays open until somebody
  flattens it. No sentence of the repository promises otherwise for the disabled
  desk (the console says "blocked" there,
  `dashboard/components/console_runtime.py:442-452`).
* On Dhan a failure behind which the order was booked is answered 400 and the
  signal reported aborted, without a retry
  (`execution_worker/broker_adapter.py:275`).
* A chain of an underlying that `TRADE_TOKENS` no longer names is neither rebuilt
  nor removed by the bootstrap (`services/chain_bootstrap.py:177`), but loaded by
  the cache (`database/chain_cache.py:96`): what yesterday's cluster stored after
  the flush is served as today's, and the replay of the other underlying may take
  its price back to an older tick a late greeks engine left behind.
* A BUY is booked when it is accepted; when it is rejected or never fills, its
  stop sells what was never bought.
* `_strike_candidates` (`services/intraday_hunt.py:281-286`) prefers the lower
  call and the higher put among equally distant strikes, in the money first,
  while its docstring says "ATM first, then OTM". `NeverInTheMoneyAlways` proves
  that on a falling ladder it makes no difference.
* The 15 percent margin cap chooses between one lot and two; one lot is never
  refused for margin.
* The controller's loss of the day counts open positions only, and reads a failed
  fetch as 0 (`services/strategic_controller/graph.py:156`), unlike the breaker.
* Without capital the day is graded `ACCEPTABLE_LOSS` down to -8000 rupees, while
  the breaker trips at -5000.
* The console says "no fresh risk" in the closing session; neither controller nor
  executor looks at the session. With a stale directive it may still announce a
  sleeve of its own, which the executor will not take.
* A premium of 50 paise or less leaves no price for a stop's SELL
  (`services/order_guard.py:112`): the sleeve stays unsold until the price
  recovers. `StopExits` excepts it.
* The audit page answers from Redis alone as soon as Redis has a row
  (`dashboard/components/orders.py:265-267`), while a failed Redis write is only
  logged (`:319`): the record of an order made during an outage is in the file
  and hidden by any later one. `ReadsBack` names this case (`noRedis`); the test
  `tests/test_mock_execution.py:245` expects the order to be found.
* Two failed orders of one second share the id `FAILED-<second>`
  (`services/order_guard.py:339`), and the page drops a row whose id it has
  shown: "showing up to {limit} newest events" leaves one of them out.
  `ReadsBack` therefore speaks of ids.
* `build_agent_statuses._last_inputs` is shared by all Streamlit sessions of the
  process: a briefing may be written from another tab's inputs.

## 5. The proofs

| Theorem | Module | Says |
|---|---|---|
| `TypeCorrect` | `RiskLock_proofs` | Every reachable state of the breaker, the console sessions and the order guard is well typed, for any number of sessions, orders and days. |
| `LockHoldsAlways` | `RiskLock_proofs` | From the lock of a trip to the end of that day placement is blocked, whatever sessions and restarts do, until the operator re-enables trading, and unless a store was dropped or overwrote a newer blob. |
| `FewSlipAlways` | `RiskLock_proofs` | At most one order, and one more per failed Redis read, is accepted while placement is locked. |
| `ResidualIsLateAlways` | `RiskLock_proofs` | Without faults, whatever still works at Dhan after a trip was accepted after the trip listed the pending orders. |
| `TypeCorrect` | `DbWriter_proofs` | Every reachable state of the two threads, the connections and the table is well typed. |
| `ConservedAlways` | `DbWriter_proofs` | With the flush thread joined in time and no commit in doubt, table plus pending rows is exactly what was accepted. |
| `NothingDroppedAlways` | `DbWriter_proofs` | A commit in doubt may repeat rows but no tick is ever dropped while the flush thread is joined in time. |
| `StopDrainsAlways` | `DbWriter_proofs` | A stop() that returns has stored every accepted tick, if the flush thread was joined in time. |
| `WriterImplementsLog` | `DbWriter_proofs` | Until the join times out or a commit is in doubt, every step of the two threads is a step of the abstract tick log or a stutter. |
| `TypeCorrect` | `TacticalDesk_proofs` | Every reachable state of the executor, its book and the broker is well typed. |
| `SoldOnceAlways` | `TacticalDesk_proofs` | Each sleeve is sold once, and once more at most per crash or outage. |
| `NoSleeveForgottenAlways` | `TacticalDesk_proofs` | Without outages, at most one accepted BUY per crash is missing from the book. |
| `SleeveCapAlways` | `TacticalDesk_proofs` | Without outages the day holds at most max_sleeves() sleeves, plus one per crash. |
| `RiskCapAlways` | `TacticalDesk_proofs` | Without outages and crashes the planned risk of all accepted BUYs stays inside the utilisation cap. |
| `OneStrayAlways` | `TacticalDesk_proofs` | At most one BUY is accepted after the directive turned against entry. |
| `BookGrowsAlways` | `TacticalDesk_proofs` | No step without an outage takes a sleeve, a stop mark or booked risk out of the book. |
| `TypeCorrect` | `EntryDesk_proofs` | Every reachable state of controller, executor and console, and of what they keep in Redis, is well typed, for any markets, ladders, margins and limits. |
| `KillBoundsEntriesAlways` | `EntryDesk_proofs` | No entry is planned later than FreshFor after a kill switch was armed or the loss came near its limit, for any clock and any number of moves. |
| `SleeveWithinConfidenceAlways` | `EntryDesk_proofs` | No sleeve has more of the day's loss than the confidence of the top strategy grants, for every confidence and every limit. |
| `DayRiskCapAlways` | `EntryDesk_proofs` | The sleeves of a day together stay within 70 percent of the day's loss and within their number. |
| `RoundTripLossAlways` | `EntryDesk_proofs` | From buy limit to stop limit a sleeve loses its booked risk and the buffers at most, for every premium, lot size, stop fraction and budget. |
| `NeverInTheMoneyAlways` | `EntryDesk_proofs` | On any ladder whose premiums fall away from the money the strike bought is at or out of the money. |
| `OneVoiceAlways` | `EntryDesk_proofs` | Under a fresh directive the console has no stance of its own and announces an entry only when the executor would take one. |
| `TypeCorrect` | `FeedCluster_proofs` | Every reachable state of listener, bus, stores and processes is well typed, and queue and sockets stay within their sizes, for every size. |
| `StopDrainsQueueAlways` | `FeedCluster_proofs` | A publisher that has ended has published all that was fed before the stop. |
| `ChainIsTodaysAlways` | `FeedCluster_proofs` | Of an underlying its bootstrap has rebuilt, the cache serves the series the cluster was started with, whatever launches, flushes and crashes happen and whatever yesterday's cluster writes back. |
| `LosslessIsCurrentAlways` | `FeedCluster_proofs` | Once all is quiet, chain and tick key show the newest tick unless it was lost or the bootstrap did not rebuild the chain, for any number of ticks, faults and jobs. |
| `FeedImplementsRegister` | `FeedCluster_proofs` | Every behaviour of the feed is one of a register that moves forward or is reset: no older price returns, in a chain the bootstrap has not passed over. |
| `TypeCorrect` | `SignalPath_proofs` | Every reachable state of gate, client, link and worker is well typed, and no call has more than three attempts, for any signals, instruments and environments. |
| `PlacedPerAttemptAlways` | `SignalPath_proofs` | A signal is placed at most once per attempt, however many requests are late, and once when every attempt was answered. |
| `AnswerIsHonestAlways` | `SignalPath_proofs` | A signal answered ok has an order, one answered aborted has none unless an attempt was in doubt or Dhan took the order and reported a failure, and a dry run books nothing. |
| `PaperBookAddsUpAlways` | `SignalPath_proofs` | On paper the positions are at all times what the orders since the last restart add up to, for any instruments, quantities and number of orders, whatever was flipped, squared off or cancelled in between. |
| `SquareOffCoversAlways` | `SignalPath_proofs` | A square-off that answers ok has closed every position or has an order of its whole size out against it, at every broker and for any positions, unless its read of the positions failed at Dhan. |
| `PositionCapAlways` | `SignalPath_proofs` | The paper book exceeds the gate's limit by at most one position per signal in doubt, for any limit, any number of signals and any squaring off, cancelling and restarting in between. |
| `TypeCorrect` | `OrderAudit_proofs` | Every reachable state of calls, log, stream, list and pages is well typed, for any calls, pages, lengths and limits. |
| `TrailKeptAlways` | `OrderAudit_proofs` | A torn line swallows one record at most and each torn line is one failed write's, for any number of processes and failures. |
| `ListBoundedAlways` | `OrderAudit_proofs` | The list exceeds its length by the calls about to trim it or that failed at most, for every length. |
| `ReadsBackAlways` | `OrderAudit_proofs` | A page shows every record made before it began to read, unless newer ones fill it or a failure of that record or that page is to blame, for every limit and while any number of writers go on. |
| `TrailRefined` | `OrderAudit_proofs` | Every behaviour of the log is one of a trail that only grows, has one record for a call at most, and says COMPLETE of taken orders only. |

Each proof has the same shape. An inductive invariant `IInv` is defined beside
the property, checked by TLC on a small instance first, and shown to hold
initially, to be kept by every action (one step per action, one below it per
conjunct the action disturbs) and to imply the property.

* `RiskLock`: the effect of the lock is not inductive, because what blocks
  placement is the bit or three flags under a deadline, and other actors rewrite
  the flags; what survives until the button is the bit itself (`LockInv`). For
  `FewSlip` one must know that only one order is ever between check and broker
  call, and that while locked it counts against the allowance (`SlipInv`). For
  `ResidualIsLate` each trip step adds what it has cleared: nothing but late
  orders rests once the cancel step is over, nothing but late orders is open
  once the flatten step is over (`ResidualInv`).
* `DbWriter`: rows are in a batch only during a flush (`BatchInv`), the threads
  do not flush together while the join is in time (`Alone`), and what is
  executed but not committed is the batch of the thread at its commit
  (`TxnInv`). Then a commit moves a prefix of the pending rows to the table and
  `Conserved` is kept. `WriterImplementsLog` uses the same invariant: a commit is
  a `Store` of the longer prefix, `WriteTick` an `Accept`, everything else
  stutters.
* `TacticalDesk`: the copy of the book about to be stored differs from the stored
  one in stop marks only (`MemInv`); the sleeve being bought already counts
  against both caps (`CapInv`); after a stray BUY the executor has no permission
  left (`StrayInv`); and a sleeve not marked has been sold at most as often as
  something went wrong (`SoldInv`).
* `EntryDesk`: what a cycle has read is no older than its stamp says (`FactsInv`),
  so a directive that allows entry was stamped before entry was forbidden
  (`Honest`); `KillBoundsEntries` follows with its freshness. A directive that
  allows entry grants a weight between the least and the confidence's
  (`Entitled`), which the way through `EntryConfidence` and `SleeveWeight` does
  not exceed (`SleeveWeightBound`). A plan is consistent with the ladder and the
  budget it was made from (`PlanInv`), and there is room for it in the book
  (`BookInv`). Below them are lemmas about the arithmetic: rounding, lots, that
  what fits at some price fits at any lower one (`FitsMonotone`).

* `SignalPath`: a request on the link belongs to the signal being placed, or its
  signal is in doubt (`FreshInv`, `ResultInv`), and a second attempt is made only
  in doubt (`RetryInv`). So a signal not in doubt has one request, and what the
  engine hears of it tells whether it was booked (`AnswerInv`), but for a 400
  of Dhan, which puts it among the `masked`. For `PositionCap`
  the positions are split into those of symbols in doubt and the others; the
  others are within the cap, at least as many as the gate has been told, and
  below it while an order the gate let through has not arrived (`PaperInv`).
  `PaperBookAddsUp` compares positions with a sum over the order book. The sum is
  a recursive function; that appending an order adds its quantity, and that
  cancelled and rejected orders add nothing, is shown without an induction
  theorem: if two sums differed at all they would differ first at some length
  (`LeastElement`, from the well-foundedness of the natural numbers below a
  bound), and the function's equation refutes that length. `SquareOffCovers` says
  the same of the orders a square-off has sent, if the worker could read the
  positions; `OkMeansCovered`, which leaves that condition out, is refuted.
* `FeedCluster`: the pipeline is ordered from end to end: nothing that has left
  the queue is newer than what the publisher sent last (`BusOrder`), and the
  chain's price is older than whatever still waits for the cache (`CacheOrder`);
  so a patch only moves forward, which is `FeedImplementsRegister`: every step
  emits a tick, shows a newer one, resets, or stutters (a chain passed over counts
  as reset, `Shown`). A rebuilt chain is today's because everything on its way to
  it is (`PipelineIsTodays`, `SeededIsTodays`),
  and that needs to know which processes live together (`StreamShape`,
  `CacheShape`). `LosslessIsCurrent` follows from `NewestOnItsWay`: unless it was
  lost, the newest tick is in both keys or pending for each consumer that has
  not stored it. `StopDrainsQueue` is inductive with the shape of the stream.

* `OrderAudit`: three invariants, each inductive on top of the former.
  `RecordInv` ties a call's stage to its record and to what the broker has, and
  every record found in any place to the call that wrote it. `LinesInv` counts:
  records swallowed are no more than lines of junk, and torn lines and junk
  together are no more than failed writes; the torn lines that have swallowed
  nothing yet must be in it, since each may still become junk. `PagesInv` says
  what a page in the middle of its reads has already secured while writers go
  on: a record that has reached Redis is in the stream unless the stream is
  full, and likewise in the list (`Kept`); `PageInv` says it of the rows found
  so far. That `Limit` is not above `MaxLen` is used exactly there. For
  `TrailRefined` every step is a `Take`, a `Record` or a stutter.

The assumptions are the named `ASSUME`s of the modules: bounds are natural
numbers, a page shows no more rows than Redis keeps, a torn line is no record,
the breaker is no session, the first connection is one of the connections, a
queue holds something, no instrument is the number 0, instruments are finitely
many, engine and panel are two clients, a ladder has the money on it, a
confidence is a number or none.
`WriterImplementsLog` ends with the first join that times out or commit in doubt;
`NoSilentDrop` shows why the first is needed, and `NothingDropped` says what is
left after the second.

Only model-checked, because the prover does not reach it: all liveness
(`BreachEndsInTrip`, `EventuallyStored`, `StopExits`, `SignalAnswered`,
`DeathRestartsAll`). Every safety and action property the runs check has its
theorem. Four invariants are proved and in no run: `SleeveCap`, `NothingDropped`,
`NeverInTheMoney` and `ListBounded`.

## 6. What is left out

* The console without Redis (`_redis()` is None): its controls live in one
  session and bind nobody.
* `risk:broadcast` (no subscriber), `risk:emergency:last`, the P&L snapshot and
  the tactical state summary (no reader that acts): stored, never used.
* A Redis store whose answer is lost although it happened.
* The change of date in the executor's book; it spans one session.
* Dry-run mode of the order guard, in which nothing reaches the broker.
* Of the audit: a write that fails after the whole line, or all of it but its
  end, is on disk; Redis losing the stream and the list; and the fields of a
  record that are only shown.
* Of the feed: volume, open interest and greeks of a tick, the translation of
  broker packets, reconnects inside the broker's library; `zmq-worker` and
  `db-writer` count as one child, the breaker as a child of `main.py` is in
  `RiskLock`; children that outlive a killed parent; PM2's limit of 50 restarts;
  the clock gate and what preflight checks.
* Of the signal path: prices, the polls of the dashboard, the optional LangGraph
  library around the same functions, and `scripts/e2e_ping.py`, which bypasses
  the gate.
* Of the desk: reasons, hints, briefings and journal, which are text for people.
* Market research (`services/day_thesis.py`, `day_strategy_backtest.py`,
  `live_market_voices.py`, `global_outlook.py`): floating-point scores over
  fetched text and candles. What acts on them, the outlook's score and bias and
  the ranked strategy, is an input of `EntryDesk`.
* Exports, downloads, dashboard pages, login, secrets and deployment: file,
  network and user interface code without shared state of its own.

## 7. Order of the modules, and what could follow

In the order of importance: the loss limit (`RiskLock`), the writer (`DbWriter`,
`TickLog`), the executor (`TacticalDesk`), the signal path, the feed, the entry
desk, the audit (`OrderAudit`, `AuditTrail`).

What could follow: one specification that has the steps of both `TacticalDesk`
and `EntryDesk`; an abstract promise of the executor and of the signal path,
refined like those of writer, feed and audit; strike selection and the greeks
over fixed-point numbers; the rolling OI baseline.
