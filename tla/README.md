# Coinext in TLA+

A verification project for Coinext, an event-driven trading platform whose
strategies run unchanged in backtest and live. The specifications model the
order path from a strategy's intent to the position it ends up with, in
backtest and live; the execution service that keeps orders in a durable log;
and the market data path from the socket to the order book and the lake. TLC
checks them on small instances; TLAPS proves every safety property of these
runs, and both refinements, for every strategy, feed, latency, limit, and every
sequence of crashes.

## The system

The repository is organised by life cycle. The parts, and where they stand:

| Part | Source | Here |
|---|---|---|
| Order state machine | `foundation/crates/coinext-model` | `OrderFsm` |
| Positions, portfolio | `coinext-model/src/position.rs`, `coinext-portfolio` | `Ledger` |
| Cache, data engine | `coinext-cache`, `coinext-data-engine` | `MarketCache`; the L2 book in `DepthFeed` |
| Brokerage model (latency, slippage, volume share, queue) | `backtesting-simulation/crates/coinext-sim/src/brokerage.rs` | `Brokerage` |
| Simulated venue and delayed report queue | `.../coinext-sim/src/lib.rs` | `SimVenue`, `VenueSession` |
| Execution engine (OMS) | `execution-live/crates/coinext-exec-engine` | `Oms`, `ExecEngine` |
| Pre-trade risk gate | `risk-portfolio/crates/coinext-risk-engine` | `RiskGate` |
| Historical clock, strategy context | `coinext-core`, `coinext-ports` | in `BacktestKernel` |
| Backtest kernel | `backtesting-simulation/crates/coinext-kernel/src/backtest.rs` | `BacktestKernel` |
| Live kernel, stop handle, paper clients | `coinext-kernel/src/{live,types,paper}.rs` | `LiveKernel` |
| Python strategy and kernel handle | `coinext-py/src/lib.rs` | `StrategyAdapter`, `LiveKernel` |
| Network (REST, socket, rate limit) | `market-data/crates/coinext-network` | `RestClient`; the socket in `BinanceVenue` and `DepthFeed` |
| Binance adapter | `market-data/crates/coinext-adapters-binance` | `BinanceVenue`, `DepthFeed`, `LiveKernel` |
| Execution service | `execution-live/crates/coinext-exec-svc` | `ExecService` |
| Event log, sequence cursor, Parquet files | `coinext-persistence` | `EventStore`, `IngestSinks` |
| Ingest daemon | `market-data/crates/coinext-ingest` | `IngestSinks` |
| Trading node, risk monitor, paper broker, API, UI, CLI, indicators, pricing, analytics, configuration | | not modelled, see the end |

`PROJECT.json` lists them one by one, with the hazards of each.

How they interact. The backtest kernel is a single thread. Each turn of its
loop moves a time frontier to the earliest of: the next market event, the next
delayed report, the next timer, the next expiry. At the frontier it applies due
reports, fires due timers, feeds the market event to cache, venue and strategy,
settles expired contracts and checks margin. Strategy handlers only queue
commands; the kernel drains that outbox after each handler phase and sends
every command through the execution engine's gates to the venue. The venue
answers through a queue ordered by due time and insertion, so acceptance, fills
and cancellations of an order are in flight together and race with new
commands.

The live kernel has no frontier. It is one task that selects, in this order,
between a stop signal, a channel of execution reports and a channel of market
events, and awaits the execution client for every command it routes. The data
client, the venue and the thread that requests the stop run beside it.

The execution service is a process of its own. It reads commands from a Redis
stream, takes each one's id from a durable cursor, writes what it intends into
an SQLite log before it tells the venue, and appends what the venue reports. It
reconciles log and venue when it starts. A kill switch arrives by a second
stream or by an HTTP port at any moment.

The depth pump of the Binance data client keeps a book of its own to find gaps,
fetches a snapshot over REST when there is one, and forwards to the core only
what it holds to be in order. The ingest daemon consumes such a feed and
writes it to a log, to Redis and, in batches, to monthly files.

## Modules

`BacktestKernel` and `LiveKernel` compose the others over the same `OrderFsm`,
`RiskGate`, `Oms` and `MarketCache`; `ExecService` composes `EventStore`,
`RestClient` and `BinanceVenue`.

* `Domain`, `OrderIds`: client order ids, instruments, and the absent value.
* `OrderFsm`: `Order::apply`. `Allowed` is the transition table, `ApplyFill`,
  `ApplyUpdate` and `ApplyStatus` the effects.
* `Brokerage`: `DefaultBrokerageModel`. Prices are ticks, quantities are lots,
  decimal rates are fractions; the roundings (banker's for prices, towards zero
  for lots) are kept.
* `RiskGate`: `RiskGate::check`, one operator per limit.
* `MarketCache`: the marks and quotes of the cache, `DataEngine::process`, and
  the order a ticket becomes.
* `Ledger`: `Position::apply_fill` with the rounding of its average entry,
  realized and unrealized profit, equity and the exported snapshot, for linear
  instruments without fees.
* `SimVenue`: `SimulatedExecutionClient`. `OnSubmit`, `OnCancel` and `OnMarket`
  are whole handlers; `Match` is the per-order dispatch of `on_market`. The
  heap of scheduled reports is a set ordered by `Before`; the vector of resting
  orders is a set ordered by venue order id.
* `VenueSession`: the venue by itself, driven by any client.
* `Oms`, `ExecEngine`: `apply_report`, and `submit` with its gates in the
  code's order (idempotency, expiry, T+1, price limit, risk), and `cancel`.
* `BacktestKernel`: `run` as a program counter. A handler is any short sequence
  of commands with a timer set or cancelled. Whether equity is below
  maintenance, and whether initial margin suffices, are free choices: profit
  and fees are not part of its state, so both outcomes are explored.
* `LiveKernel`: `run_inner` and `route_outbox` as a program counter with one
  step between any two awaits, and between the flag check and the `Notified`
  future of the stop handle, where another thread can run. `client` chooses
  between `PaperFillExec` and a venue. The venue is external, modelled from the
  reports `map_execution_report` understands: it answers, trades in parts and
  closes an order; `Pump` may lose a report, because the code ignores
  reconnections, and an execution may be repeated. A fill carries a precision:
  the order's own from `PaperFillExec`, the wire's from the venue. One that is
  not the order's is refused after its trade id was recorded (see below). A
  failing request ends the run. The handle, `PyKernel`, runs the kernel and may
  be asked to run it again: after a failed `connect` it can, and once the
  streams have been taken a second run panics and leaves the handle empty. A
  run without a telemetry callback is one whose callback never fails. The live
  path has no expiry, T+1 or price-limit gate: only `RiskGate`. Of the order
  parameters the price, the trigger and the time in force are left out.
* `StrategyAdapter`: a strategy in Python. A handler's calls are queued, a
  submission returns the id its order is going to have, and the queue is
  replayed when the handler has returned or raised. An id is its sequence
  number; a negative number stands for one that cannot be represented; a side
  other than "sell" is a buy.
* `EventStore`: the log and the cursor of one SQLite file. The cursor may fail,
  an append does not.
* `RestClient`: `send`, with what an attempt may come to and which failures are
  retried.
* `BinanceVenue`: the execution client, the user-data socket and the venue
  behind them (external).
* `ExecService`: `main`, the command loop, `PaperOms` and its venue form, as
  one step from an await or a durable write to the next; the pump; the kill
  switch; a crash between any two steps, after which only log and cursor are
  left. When the cursor fails, a submission takes the id 1.
* `DepthFeed`: the socket, `DepthResyncer`, `process_frame` and the core's
  `OrderBook`. A level's content is the number of the update that set it.
* `IngestSinks`: the daemon in its live and its offline build, with every sink
  and, in a flush, every file operation that may fail.
* `OrderLifecycle`: the abstract specification, what the order management
  system promises of an order whatever happens around it.
* `MC*`: constants for TLC. `*Lemmas`, `*Theorems`, `*Proofs`: proofs.

Operators called `Variant` in their comment are deliberately wrong forms of the
definition below them. They are used to show that each checked property notices
a plausible mistake.

Auxiliary quantities that guide no action: a fill's `cum` (what the venue has
filled of the order up to it), `closed_out` (lots moved by settlement and
liquidation), `late` (in `LiveKernel` the messages handled since the stop was
requested, in `ExecService` the orders the venue took since the kill switch was
engaged), the record of handled commands and lost reports in `ExecService`,
`cursor_failed` in `EventStore` (the cursor has failed at least once), and
`whole` in `DepthFeed` (the core got the snapshot the book was built from).

## Runs

| Run | Result | What it shows |
|---|---|---|
| `venue_session` | holds, 400 thousand states | Seven tickets, all modelled order types, bars, a trade, a quote and a book delta on both sides of every price. Lots are conserved, reports leave in acknowledgement order, a limit is never worsened by slippage, trailing triggers only tighten, and the ledger fed with the fills accounts for the money up to the rounding of the average entry. |
| `trailing_stop` | violated | A trailing stop placed before the first mark never arms (see below). |
| `backtest` | holds, 230 thousand states | Two orders that may cross, partial fills, cancels from every handler: the inductive invariant `OrderFlow`, `AcceptedFirst`, the lot and position accounts, and refinement of `OrderLifecycle`. |
| `contracts` | holds, 285 thousand states | Expiring option, liquidation, a timer set in the past, limits that deny: dead contracts keep no order, accounts balance through synthetic fills, every order sent while the loop runs is acknowledged, the run ends. |
| `post_expiry` | violated | A fill in flight at expiry opens a position nobody settles. |
| `t_plus_one` | violated | Two outstanding sells sell shares bought the same day. |
| `live` | holds, 660 thousand states | An order that may be submitted, cancelled and submitted again by a native strategy, at the paper client or a lossy, repeating venue, or up to two orders of a Python strategy; a stop at any moment; a second run: reports find their order, no execution counts twice and none that is not in the precision of its order, a stop is at most one message late, a Python strategy gets the ids it was promised, orders refine `OrderLifecycle` as in backtest, the end of the feed ends the run. |
| `live_stop` | violated | A stop requested in the window before the `Notified` future exists is not noticed while both streams are silent. |
| `exec_service` | holds, 1 million states | Commands, crashes, lost answers and retries, errors of the cursor, a socket that drops and a listen key that expires, an order placed by hand, kill-switch messages: nothing reaches the venue unlogged, minted ids are new (but for the first, once the cursor has failed), no command is handled twice, the kill switch lets at most one order through, an Accepted of the venue in the log is current up to lost reports, an order open at the venue is open in the log unless a report of it was lost, it has traded or the service itself logged its refusal, every command is done with. |
| `depth_feed` | holds, 300 thousand states | Snapshots that lag, frames that are lost, drops and failed fetches: a synced book has no gap, the core's book is exact where the bridging frame carried the snapshot and no earlier frame was replayed, a frame costs at most two snapshots, neither diffs nor ticks wait for ever. |
| `depth_rebuild` | violated | A synced book whose snapshot never reached the core. |
| `lake` | violated | A flush that fails half-way loses bars that were in the files. |

Bounds. Two client order ids are the least with which orders can cross and an
id can be reused (`t_plus_one` needs four); three commands allow submit, cancel
and a second submit; two or three market events allow partial fills, ratchets
and a queue that drains over several bars; the submit latency is positive so
that reports are in flight while the next event arrives, and the cancel latency
is at least as long. `MaxEvents`, `MaxGap`, `MaxCommands`, `MaxPerCall`,
`MaxTimers`, `MaxTime`, `MaxRepeats` name every bound of the kernels. In `live`
a native strategy has one id, because the properties speak of one order or of
the loop, and a Python one two, so that a refused submission can shift the
second; two commands, so that an order is cancelled or submitted again; two
instruments, one whose sizes have the precision of the wire and one whose have
not; and a report channel of four. With a channel smaller than what one
handler's commands can send, TLC reports a deadlock: `PaperFillExec` then waits
for room in a channel that only its caller reads. The code's channel has 1024
places.

`exec_service` has two minted ids, the least with which an id could be minted
again, and one placed by hand; one retry and one trade per order; two commands;
and two incidents (a crash, a lost answer, an error of the cursor, a drop and
so on), the least with
which a second failure can meet the recovery from the first. `depth_feed` has
six updates over two levels, snapshots that lag by up to three, a buffer of up
to three diffs, two faults and one stream beside the diffs; `depth_rebuild` is
the same without faults. `lake` has four bars in batches of two
behind a leftover part of the same month, two connections and four events of
the live build. Client order ids are symmetric where no liveness is checked.

Deadlock is checked for the kernels and the service. It is off for
`VenueSession`, whose client may simply stop, and for `DepthFeed` and
`IngestSinks`, whose bounded feed ends.

Fairness. The backtest kernel is one thread that never waits, so `FairSpec`
assumes weak fairness of its step as a whole and nothing finer. `RunEnds` also
rests on the bounds on commands and timers: a strategy that sets a timer in
every timer handler may run for ever. For the live kernel, the runtime polls a
task that can proceed, a request is answered or fails, and a thread inside
`request_stop` runs on; the feed, the venue and the operator owe nothing. For
the execution service only the handler of a command is fair: the runtime
resumes it, and each request is bounded by the timeout of `RestConfig`. For the
depth feed only the pump is fair, for the same reasons; no snapshot has to
succeed and no frame has to come.

## Where code and comments disagree

* `on_submit` computes the trail of a trailing stop once. Without a mark the
  order stays inert for ever; two comments say "until one exists".
* `submit` refuses expired contracts "so a post-expiry position can't be opened
  that the kernel's expiry settlement would then miss". A fill already in
  flight opens one.
* "shares bought on calendar day D ... cannot be sold until day D+1": the
  sellable quantity does not reserve sells that are still working. (The comment
  also says UTC date; the code and the research guide use Shanghai's.)
* "The run loop wakes promptly and disconnects both ports" (`request_stop`):
  `cancelled` reads the flag before it creates the `Notified` future, and
  `notify_waiters` keeps no permit for a future that does not exist yet.
* "Emit the snapshot rebuild (Clear + Adds) first so the core book matches the
  snapshot, then the live diff deltas" (`process_frame`): a snapshot that
  already contains the frame it was fetched for leaves the book unsynced, and
  its deltas are dropped. The next diff bridges and reaches the core alone. The
  deltas of buffered diffs that `on_snapshot` replays are not sent either.
* "put back so we don't lose data on transient IO errors" (`flush`): only the
  new batch is put back. By the time a flush fails it may have taken an
  unreadable file for an empty one, removed the parts, or truncated the monthly
  file.

`value.rs` opens with "so PnL and matching never drift". The average entry is
rounded to the tick on every increase, so profit drifts by up to half a tick
per lot held; `BooksBalance` states exactly that bound.

`build_fill` gives every fill of the venue the precision of the wire, 8, and
`Order::apply_fill` refuses a quantity that is not in the order's precision. By
then `apply_report` has recorded the trade id. On an instrument with any other
size precision (the tests of `instruments.rs` have 5 for BTCUSDT and 4 for
ETHUSDT) the live kernel therefore books no fill of the venue at all: neither
order nor position moves. The model has it so, and `FillsAreTrades` counts the
executions in the order's own precision only.

`SqliteSeqCursor` is to give "no id reuse, no double-submit on retry".
`handle_submit` takes the id 1 when the cursor returns an error, so that this
id can be used again, also by the cursor itself if it had not moved yet.
`FreshIds` holds for every other id, and for the first as long as the cursor
never failed. The venue, as it is modelled, refuses the reused id.

Behaviour the models keep and no property judges, because no document says what
is meant: timers of one batch cannot cancel each other; the participation cap
is per order, not per instrument; settlement skips a contract without any
price; liquidation leaves resting orders; the live loop ends on the market
stream alone, so reports of what `on_stop` sends are never read; a
`PendingCancel` may be logged behind the `Canceled` of the pump; orphans are
counted and stay open in the log; control messages sent between two polls are
missed; kline frames are dropped; the gap metric of the ingest counts diffs
that span several updates; a batch over the end of a month goes into the
earlier month's file.

## Proofs

For all constants that satisfy the assumptions below. Every safety property of
every passing run has a theorem.

| Module | Theorem | States |
|---|---|---|
| `VenueTheorems` | `VenueTypeCorrect` | `Spec => []VenueTypeOK` |
| | `LotsAreConserved` | `Spec => []LotsConserved` |
| | `ReportsComeInOrder` | `Spec => []ReportsInOrder` |
| | `LimitsAreKept` | `Spec => []NeverWorseThanLimit` |
| | `TriggersTighten` | `Spec => TriggerOnlyTightens` |
| | `BooksAreBalanced` | `Spec => [](PositivePrices => BooksBalance)` |
| `OrderFlowTheorems` | `TypeCorrectness` | `Spec => []TypeOK` |
| | `OrderFlowInvariance` | `Spec => []OrderFlow` |
| | `AcceptanceComesFirst` | `Spec => []AcceptedFirst` |
| | `OnlyCancelLosesFills` | `Spec => FillLostOnlyToCancel` |
| | `OrdersRefineLifecycle` | `Spec => OrdersLiveOnce`, the refinement of `OrderLifecycle` |
| `BooksTheorems` | `NothingRestsOnDeadContracts` | `Spec => []DeadContractsHaveNoOrders` |
| | `PositionsAreFilledOrders` | `Spec => []PositionsFollowOrders` |
| | `NoLotIsLost` | `Spec => []LotsAccounted` |
| `LiveTheorems` | `LiveTypeCorrect` | `Spec => []LiveTypeOK` |
| | `NoReportComesEarly` | `Spec => []ReportsFindTheirOrders` |
| | `FillsAreExecuted` | `Spec => []FillsAreTrades` |
| | `StopLagsOneMessage` | `Spec => []StopLag` |
| | `PromisesAreKept` | `Spec => []PromisedIds` |
| | `LiveOrdersRefineLifecycle` | `Spec => OrdersLiveOnce`, the refinement again |
| `ServiceProofs` | `ServiceTypeCorrect` | `Spec => []ExecTypeOK` |
| | `NoCommandTwice` | `Spec => HandledAtMostOnce` |
| | `IntentIsLogged` | `Spec => []LoggedBeforeSent` |
| | `MintedIdsAreNew` | `Spec => FreshIds` |
| | `KillStopsSubmission` | `Spec => []KillStops` |
| | `AcceptedStaysCurrent` | `Spec => []AcceptedIsCurrent` |
| | `OpenOrdersAreLogged` | `Spec => []OpenIsLoggedOpen` |
| `DepthProofs` | `DepthTypeCorrect` | `Spec => []DepthTypeOK` |
| | `SyncedBooksHaveNoHoles` | `Spec => []SyncedIsContiguous` |
| | `CoreFollowsTheVenue` | `Spec => []RebuiltBookIsExact` |
| | `TwoFetchesAreEnough` | `Spec => []TwoFetches` |

`BooksAreBalanced` has a premise. `pnl_per_qty` takes an entry of zero for no
entry, and slippage and rounding can bring the price of a fill down to zero;
such a fill is not accounted for. `PositivePrices` says that no fill and no
mark has been at zero or below. It holds in every state of `venue_session`,
where `BooksBalance` is checked without it.

Assumptions. `LatencyAssumption`: a cancel takes at least as long as a submit
(the default model uses one latency for both; with a faster cancel
`AcceptedFirst` is false). `RateAssumption`, `LedgerAssumption`: rates are
non-negative fractions and the multiplier is positive. `NoneAssumption`,
`OrderAssumption`, `HeldAssumption`, `MessageAssumption`: the absent value is
no number, order or message. `KernelAssumption`, `SessionAssumption`,
`LiveAssumption`, `PrecisionAssumption`, `PythonAssumption`, `RiskAssumption`,
`SessionDayAssumption`, `FeedAssumption`: tickets, events, limits, precisions,
the length of a day and the venue's updates are well formed. Tickets have the form the order factory gives them
(`TicketType`): a price for limits and stop-limits only, a stop for stops only.
The session has finitely many instruments. `ServiceAssumption`: there are
finitely many orders, the service can mint at least one, commands are well
formed, and nobody else submits under an id the service mints. `RestAssumption`, `TradesAssumption`: bounds are
natural numbers. TLC evaluates all of them on the runs.

Induction over data, in `DataLemmas`. The library's induction theorems take an
operator, which the backends cannot instantiate. A predicate is a set of
numbers here, and induction is the well-foundedness of the natural numbers,
which the library states for sets. From it follow induction over the subsets
of a finite set, the maximum of a bounded set, the value of a function defined
by recursion over `0..n`, and sums over finite sets: that they do not depend on
the order of the terms, one element more or less, and monotony. The sums the
specifications take from the community modules equal these (`SumOfFunction`,
`SumOfQty`).

The venue, in `VenueLemmas` and `VenueTheorems`. `VenueLemmas` shows what the
brokerage model returns, that matching one order against one event fills at
most what is left (`MatchIsOk`), that the fills of one event have distinct
places (`RankFacts`), and so what `on_cancel` and `on_market` do to the book
and the queue; both users of the venue start from these effects.
`SessionInv` adds to the properties what they rest on: an order rests once and
as it was placed, a report concerns a placed order and is due within a latency,
and nothing rests behind a cancellation. That fills make up the quantity is a
statement about a sum over a set that grows by one fill per order and event.
`TriggerOnlyTightens` needs the form of an order with its trail
(`WellFormed`), which `Ratchet` keeps.

The balance is proved in three steps. One fill (`FillIsBooked`): what a
position stands for apart from its exposure, `Booked`, changes by the money the
fill moves, up to half a tick per lot held when the fill adds to the position
and exactly when it closes, flips or opens one. All fills of an instrument
(`FillsAreBooked`): induction along the sequence in which they are released,
which is theirs alone because every report has its own place (`Numbered`). All
instruments (`BalanceOfSums`): induction over their subsets.

The backtest kernel, in `OrderFlowTheorems` and `BooksTheorems`.
`AcceptedFirst` is not inductive: delivering a report must not expose another
one that comes too early. `OrderFlow` adds what is needed. The reports of an
order are totally ordered, acceptance first and cancellation last. Each fill in
flight carries its cumulated quantity, and these tile the interval from what
the cache shows as filled up to what still rests. A trade id in flight has
never been seen. The drained batch is ahead of the queue. `Inv` is `OrderFlow`
with the types. `FirstReport` is the heart: the first report always finds its
order ready. For the refinement every step changes at most one order, by
tracking, filling or moving it, and each of these is a step of
`OrderLifecycle`.

`Books` builds on `Inv`. `Belonging` ties what rests and what is in flight to
the instrument and side of its order. `SettleInv` says which orders may still
be on an expired contract: those `settle_contract` is about to cancel.
`Positions` is the sum of the orders' fills, of which a step changes one term.
`Lots` accounts for the quantity of an order between cache, flight and book.
Every step of the loop is one of six kinds (`StepKinds`), and each of the four is
preserved kind by kind.

The live kernel, in `LiveTheorems`. `LiveInv` has five parts. `StrategyInv`
types the commands, whose ids are those promised; that replay mints exactly
these is an induction along the queue of a handler. `StopInv` says that a
message handled after the stop is the last: the task comes to the flag before
it comes to the select. `TradeInv` ties each order to the client: what is
executed and what is left make up the order, the cache shows at most what it
has seen in the precision of the order, trade ids are new. `RouteInv` keeps the
command that is being routed with its order across the awaits. `MarketInv`
types the cache. The refinement is that of the backtest kernel with another
alphabet of steps.

The execution service, in `ServiceProofs`. `LoopInv` says that whatever was
handled lies behind the loop's place in the stream; the id "$", at which a new
life of the process starts, lies beyond every command there is. `FlowInv` has
`IdInv`, every id that was used is at most the durable cursor, or is the first
one and the cursor has failed, and the handler has logged Submitted before it
may post, and `KillInv`, at most one order was taken since the kill switch, and
a retry is refused once the venue has taken the order of the handler. `TaskInv`
and `ReconcileInv` say when the tasks of the process run and what a
reconciliation still has to seed. `SyncInv` follows log and venue: a queued
report is true of its order or will be corrected by a later one, an Accepted at
the end of a log is covered by the venue, a queued report or a lost one, and
while the log follows the venue an open order missing from it is about to be
seeded or was refused.

The depth feed, in `DepthProofs`. `DepthInv` adds to the properties where the
book stands while no snapshot is awaited, that a whole book and the core's book
are the same, and that the second fetch for a frame meets an empty buffer,
which is why there is no third.

Only model-checked. Liveness under fairness is beyond the prover:
`Acknowledged`, `RunEnds`, `LoopEnds`, `Answered`, `RefetchEnds`,
`TicksGetThrough`. The violations are TLC's counterexamples. `IngestSinks`
appears in such a run only.

## Not modelled

Left out of modelled parts:

* fees and the profit of non-linear instruments; in the kernels a position is
  its signed quantity;
* the event log and timestamps of an order, result counters and the fill log,
  publication on the in-process bus, the queries of the L2 book;
* `MarketIfTouched` orders in the simulated venue, which nothing constructs and
  which would rest for ever. Both kernels ignore the Modify command. The live
  loop fires no timers, and `reconcile` runs before it has cached any order, so
  what it returns changes nothing;
* timers of a Python strategy, and Python strategies at a venue: the adapter
  does not see which client is behind the kernel;
* backoff, refill of the rate limiter, signing and keep-alive pings, which
  decide when a step happens and not which. An attempt of a request is one
  step: one the client gave up on has by then reached the venue or is lost;
* failing appends to the SQLite log, whose results the service ignores
  (`oms.rs:164`, `venue.rs:218`, `venue.rs:412`): an append is durable when it
  returns. Errors of the cursor are modelled. `reconcile_now` is called by
  nothing. The summary of a reconciliation is dropped when it is published;
* in the ingest, configurations without lake or Redis, a second series, a
  second instrument, and a process killed before its last flush.

Not modelled at all:

* the simulated venue behind its port (`port.rs`): only a test constructs it;
* the trading node and trader service: wrappers in Python that build, start and
  stop the kernel, whose handle is modelled;
* the risk monitor: a sequential fold of telemetry into thresholds on real
  numbers. Its effect, a kill-switch message, may come at any moment in
  `ExecService`. It latches a breach even if the message could not be
  published, and the node does not carry a kill switch over to a kernel built
  later; neither is visible in a model of the parts behind them;
* the paper equity broker: sequential, with the A-share rules the execution
  engine has, its sellable quantity included;
* API, user interface and command line (I/O and presentation), indicators,
  derivatives pricing, analytics, optimisation and screening (numerical code),
  configuration, contracts and parity scripts (conversions).
