# Verification of flumine

flumine is an event-driven trading framework for Betfair: streams put events on
one queue, a main thread hands them to strategies, strategies ask for orders,
order packages are executed by a pool of threads (live) or against historical
market books (backtest).  This directory holds TLA+ models of the parts in which
something can go wrong that a unit test hardly reaches, the TLC runs that check
them on small instances, and TLAPS proofs for every value of the constants.

    tlc -workers 2 -config OrderFaults.cfg MCOrderExecution.tla     # a run
    tlapm OrderExecutionProofs.tla                                  # the proofs of a module

`PROJECT.json` lists the components, the runs, the mutant that breaks each
property, the source lines behind each definition, the hazards, and the theorems.

## 1. The system and its parts

Paths are relative to `src/flumine/`.

| component | state | operations | talks to | what makes it correct |
|---|---|---|---|---|
| Order, trade, package (`order/order.py`, `trade.py`, `orderpackage.py`) | `Order.status`, `bet_id`, `update_data`, `responses`; `Trade.status`, `orders`; package retries | status changes, `cancel`/`update`/`replace` requests, `with trade`, replacement | changed by main thread and pool threads without a lock | completed exactly when nothing is left; a trade completes once and only when its orders have |
| Live execution (`execution/betfairexecution.py`, `baseexecution.py`, `transaction.py`) | pending lists of a transaction, thread pool, pool of HTTP sessions | `execute_place/cancel/update/replace`, retry, `Transaction.execute` | exchange API, orders, client counts | reports reach the right order whatever their order, absence, error or retry |
| Order stream (`order/process.py`, `streams/orderstream.py`) | `responses.current_order`, the blotter | `process_current_orders`, recreation of unknown orders | main thread only | the order follows its bet; nothing recreated twice |
| Strategy, runner context (`strategy/`) | live and executable trades per runner | `validate_order`, `place`, `reset` | read by main, reset from pool threads | the bound on live trades |
| Client control (`controls/clientcontrols.py`) | four counters, next hour | validate, `add_transaction`, hourly reset | main thread and pool threads, a lock | no lost count, bounded overshoot of the limit |
| Trading controls (`controls/tradingcontrols.py`) | none | `_validate` of price, size, exposure | reads the blotter | exposure never understated |
| Market, blotter (`markets/`) | open/closed, cleared flags, orders, live orders | open, close, clear, remove, lookup | main thread; worker sets the cleared flags | follows the exchange; no order lost; cleared after closure |
| Engine (`baseflumine.py`, `flumine.py`, `events/`) | `handler_queue`, `markets` | one handler per event type | all threads put, main takes | order of events |
| Workers (`worker.py`) | none but the clock | closure poll, keep-alive, balance, catalogue | API, `handler_queue`, market flags | every closed market is cleared |
| Logging controls (`controls/loggingcontrols.py`) | a queue and a thread | `log_control`, drain at the end | all threads put | what was placed is logged before the control ends; it ends |
| Simulated execution (`execution/simulatedexecution.py`) | bet ids | the four handlers of a backtest or of paper trading | `Simulated`, trade, blotter | the same order life cycle as live |
| Simulated matching (`backtest/simulated.py`, `markets/middleware.py`) | matched, cancelled, lapsed, voided sizes, queue position, version; traded volume | place, cancel, update, match, starting price, runner removal | one thread | nothing matched twice, ahead of its queue, beyond its size or liability |
| Backtest loop (`backtest/backtest.py`) | pending packages | `_process_market_books`, latency, live orders | all of the above | every package executed once; live orders are those that can match |
| Streams (`streams/`) | subscriptions, stream ids, listener caches, output threads | share, start, subscribe again, forward, snap | `handler_queue`, the strategies' `stream_ids` | a strategy gets its stream's books and no others, and catches up after a reconnection |
| Clients (`clients/`) | session, account | login, keep-alive, logout | API | logged out after the exit |
| Helpers (`utils.py`, `order/ordertype.py`) | none | prices, weighted average, exposure | called everywhere | prices on the ladder; exposure is the worst case |
| Configuration, exceptions, patching | constants | | | |

The hard behaviours: orders and trades shared by the main thread and the pool
without a lock; replies and stream records that overtake each other; requests that
are lost, refused, answered in part or retried; a restart with bets at the
exchange; a client count shared by threads and reset on the hour; exposure read
from orders that are older than the bets; events that queue up behind later news;
stream ids that change under queued books; threads that end one after the other
while others still hand them work; in a backtest, packages that become due in another
order than they were sent, and matching that must use each traded pound once.
`PROJECT.json` "hazards" places each of them at its line.

## 2. Modules

| module | models | extends |
|---|---|---|
| `Selection` | `OrderPackage.orders`: the elements of a list that pass a test, without recursion | |
| `OrderExecution` | live execution of one strategy's orders on one runner | `Selection` |
| `OrderLedger` | the abstract promise of an order: one bet, a view from above, closed when over | |
| `OrderRefinement` | `OrderExecution` mapped to `OrderLedger` | `OrderExecution` |
| `TransactionCount` | `MaxTransactionCount` with its lock and reset | |
| `Prices` | the price ladder, `get_nearest_price`, `price_ticks_away` | |
| `Exposure` | the trading controls and `Blotter.get_exposures` against the bets | `Prices` |
| `Backtest` | one market of a backtest: packages, simulated execution, matching | `SequencesExt` |
| `MarketLifecycle` | markets of a live flumine and the closure worker | |
| `Streams` | market streams, their threads, and the delivery of books to strategies | |
| `Shutdown` | pool, HTTP sessions, logging control, workers, and `BaseFlumine.__exit__` | |
| `OrderExecutionProofs`, `TransactionCountProofs`, `ExposureProofs`, `BacktestProofs`, `MarketLifecycleProofs`, `ShutdownProofs`, `StreamsProofs` | theorems about the modules of the same name; `OrderExecutionProofs` also about `Selection`, `ExposureProofs` also about `Prices` | TLAPS |
| `OrderBetsProofs` | more theorems about `OrderExecution`, and that it implements `OrderLedger` | `OrderExecutionProofs`, `OrderRefinement` |
| `MC*` | model values and small sets for TLC | |

### OrderExecution

*State.* `status`, `trade`, `betId`, `remaining`, `reduction`, `newPrice`: the Order
objects (`update_data` is `reduction` and `newPrice`); `tstatus`, `liveTrades`:
Trade and RunnerContext; `blotter`; `pending`, `executing`: the Transaction;
`pkg`: one record per package, which is also the pool thread that executes it;
`queue`, `current`: snapshots waiting and being processed; `exch`: bets at the
exchange.  `gaveUp` (orders whose request failed for good) is there for one
property only; `requests`, `restarts` are bounds.

*Main thread.* `CreateOrder`, `PlaceOrder` (`Transaction.place_order` with
`validate_order`), `RejectPlace`, `CancelOrder`, `UpdateOrder`, `ReplaceOrder`,
`RejectRequest` (a control says no), `Execute` (packages are submitted in the
order place, cancel, update, replace, cut at `order_limit`), `NextSnapshot`,
`ProcessCurrentOrder`, `SkipCurrentOrder`, `CreateOrderFromCurrent`.  The strategy
acts only between two events.  Creating an order and placing it are two steps.

*Pool thread* (`Thread(p)`): `SendRequest`/`AbandonRequest`, `Reply`, then for each
report `EnterTrade`, `ApplyReport`/`PassReport`, `ClearUpdateData` (the second half
of `Order.executable()`, a step later than the status, as in the code),
`CreateReplacement`, `SettleReplacement`, `ExitTrade`, `ReleaseTrade`; `RequestError`
and `RequestBroken` are its `except` branches with the retry.  A thread is split
where it reads or writes something shared.

*Exchange* (external): `Exchange*` process one instruction at a time, so that a
reply can be lost in the middle; `ExchangeMatch` matches or lapses.  A resubmission
that carries a `customer_ref` already seen is answered without reports: the
exchange's promise, taken from how the code uses it.  `Snap` is the stream.

*Abstractions.* One strategy, one runner, LIMIT orders; identifiers are the next
unused one; a replaced bet keeps the customer order reference of the original;
requests in flight are lost with a restart; the controls run before the guards of
`BetfairOrder.cancel` and the others, so that `RejectRequest` takes any order of the blotter,
whatever it waits for, and `CancelOrder` and the others only EXECUTABLE ones with a bet;
`RejectPlace` may take any new order, because `validate_order` also counts trades and seconds
and the controls look at more than the model has; a trade is used for several orders only when
`multi_order_trades` is set; prices are left out (what matters is whose bet it is).

### OrderLedger and OrderRefinement

The ledger knows an order by its `phase`, whether a bet was `made`, what is `left` of
the bet and the order's own `view` of it.  It promises: at most one bet, made while
the order is open; the view never below the bet and never rising; an order closes only
when nothing is left, and does so in the end.  `Reopen` is there because the code does
it: a report that comes after the order stream has completed an order makes it
EXECUTABLE again for a while.  The mapping reads `phase` off `status`, `made` and
`left` off the bets that carry the order's reference, `view` off `remaining`.  It
holds while nothing is replaced: a replacement's bet carries the original's reference.

### TransactionCount

`count` holds the four counters; `count += n` is `LoadTotal`/`StoreTotal` and
`LoadCurrent`/`StoreCurrent` under `lock`; `CheckHour`, `Reset`, `ResetFailed`,
`Validate` are `_validate` on the main thread, the two resets without the lock.
A thread is a package in flight: `Send` (validated orders leave), `Answer` (what will
be added: placed, failed, or both after a failed replace), `AddTransaction`.
`safe` reads the two current counts in one step.  `completed` and `sinceReset`
are what the properties compare with.

### Prices and Exposure

`Prices` is the ladder of `utils.py` in pennies: `CUTOFFS`, `make_prices`, the rounding of
`get_nearest_price` (asked in tenths of a penny) and `price_ticks_away`.

`Exposure` is one strategy on one selection.  *State.* `status`, `terms`, `newOdds`: the
Order; `view`, `seen`: what `size_matched`, `average_price_matched` and `size_remaining`
give, and whether they come from the stream; `blotter`; `exch`, `replacement`: the bets;
`market`.  *Main thread:* `PlaceOrder`, `RejectPlace`, `CancelOrder`, `ReplaceOrder`,
`RejectRequest` with the controls as the code orders them (`ValidOrder`, market status,
`ValidateOrder`, `WithinExposure`), `StreamRecord`; `PlaceOrderTorn` is a placement whose
`get_exposures` reads `size_matched` before, and `size_remaining` after, a pool
thread has stored the place response.  *Pool:* one action per reply.  *Exchange:*
matching, starting price, lapse, suspension.

A request passes the controls (`MayRequest`) before the order looks at its own status and
type (`Requestable`): `RejectRequest` marks VIOLATION what is PENDING, EXECUTABLE,
CANCELLING or REPLACING, of any type.

*Abstractions.* Whole amounts; a price is its odds (price - 1); a bet counts from
`PlaceOrder` on, a cancel takes effect with its reply; a package has one order, so that the
reply an order marked VIOLATION waited for is not processed (marking it in the middle of
that is left out, and so are requests about orders that are complete); the replace of a
LIMIT_ON_CLOSE order is left out.

### Backtest

*State.* `status`, `terms`, `sim`: orders with their `Simulated`; `trade`, `tstatus`;
`live`: `Blotter._live_orders`; `queue`: pending packages with their age; `incoming`, `book`: the
market book being processed and `Market.market_book`; `volume`, `traded`:
RunnerAnalytics; `phase`, `todo`: where `_process_market_books` is.  `history` notes
down what a reader of the book would: the volume ahead and already traded when the
order was placed.

*Steps of one book*, in the code's order: `NextBook`; `ExecutePlace`, `ExecuteCancel`,
`ExecuteUpdate`, `ExecuteReplace`, `FailReplace` or `FailInstruction` for each package that is due, still
against the previous book; `CloseMarket` or `UpdateMarket` (market, RunnerAnalytics,
runner removal); for each live order one of `PassOrder`, `MatchAtSP`, `NoSP`,
`Lapse`, `MatchTraded`; `EndMatching`; `ProcessOrder` for each live order; then the
strategy (`PlaceOrder`, `CancelOrder`, `UpdateOrder`, `ReplaceOrder`).

*Abstractions.* One runner; one order in a package; amounts are small whole
numbers and traded volume is counted in pairs (half of it is the other side);
the average price is kept as the cost it comes from; in-play is part of
"reconciled"; a new market status is a new version; publish times strictly
increase; the controls (in `OrderExecution`), the price adjustment of orders on other
runners and the end of a stream are left out.  Traded volume never decreases (where it does,
`RunnerAnalytics` takes no notice and counts what it rises again), and prices are inside the ladder: an order
at 1.01 or 1000 would take the price `Simulated` assumes when nothing is offered
(`simulated.py:98-99`) for an offer, and note no queue.

### MarketLifecycle

*State.* `exchange`: the real status and bets of a market; `queue`: `handler_queue`;
`current`: which Market object `Markets` holds for an id; `object`: those objects;
`working`, `at`, `from`: where `poll_market_closure` is.  *Steps.* `Publish` (market
stream), `ProcessMarketBook`, `ProcessCloseMarket`, `ProcessClearedOrders`,
`ProcessClearedMarkets` (one event each), `Poll`, `SkipOrders`, `GetClearedOrders`
(a page and its put), `FailOrders`, `SetOrdersCleared`, `GetClearedMarket`, `PassMarket`,
`SetMarketCleared`; `Expire` is the clock reaching 3600 s.  The exchange settles
what was bet as it closes a market.  Recording (`RAW_DATA`), paper trading and an
exception other than an API error in the worker are left out.

### Streams

*State.* `strategies`, `subscribed`, `stream`: `Streams._streams`, a record per
stream with its `id` (`stream_id`), the unique id of its `listener`, the connection,
the number of the last update in the `cache`, the output queue `out` and whether the output thread is
about to snap; `handler`; `event`, `at`: the event the main thread is at and the
strategy it is at; `known`: filters whose market is in `Markets`; `published`,
`received`.  *Main thread:* `AddStrategy` (shares the first stream that serves it or makes one;
`Serves` is the `isinstance` of `streams.py:72`: a stream of a subclass serves too),
`StartStream`, `Started`, `TakeEvent`, `Offer` (one strategy a step, because ids change
meanwhile).  *Stream thread:* `Subscribe`, `Subscribed` (the id is stored
after the listener has it), `Receive`.  *Output thread:* `Forward`, `TimeOut`, `Snap`.  `Drop`
is a refused subscription or a lost connection, after which tenacity calls `run` again.

*Abstractions.* One market per filter; a book is the number of the update it shows;
conflation is left out; the connection counts as made from the start of the
subscription; the listener and the connection are betfairlightweight's.  The order
stream is in `OrderExecution`; historical and simulated streams are left out.

### Shutdown

*State.* `pc`, `by`, `session`, `retries`: a package, the thread it is in the hands of and
its session; `idle`: `BaseExecution._sessions`; `work`, `down`: the executor; `worker`,
`running`, `stoppedAt`, `runs`: BackgroundWorkers; `queue`, `logger`, `logged`: the
logging control; `login`; `main`: the loop or a step of `__exit__`.  `_get_http_session` is
`LookForSession`, `CreateSession`, `PopSession`, `PassSession`: the test of the list and the pop are two
steps, as are `CheckRoom` and `ReturnSession` of `_return_http_session`.  `CallFails` is
the retry, which goes through the same steps on a pool thread, where `SubmitRefused`
awaits it once the pool is down.  A worker is `BeginWork` (after its delay),
`CheckRunning`, `DoWork`.  `LogEvent` is the control's loop with its own `None`.

`lost` has the packages whose bets were placed by a call that raised (`CallRaises`): the exchange
knows them, nothing here does, and the retry is answered without reports.  `Logout` may be
`LogoutRaises` instead: nothing in `__exit__` or the client catches the exception.

*Abstractions.* Events are those of orders and workers; login is one flag; the age of a
session is a choice; streams and simulated execution have nothing to end here.

## 3. Runs

`pass` runs show that the properties hold for every behaviour of the instance;
`violation` runs show a behaviour of the code that contradicts a sentence in the
repository, quoted in `PROJECT.json` "findings".

| run | instance | shows |
|---|---|---|
| `order_faults` | 2 orders in one transaction, 2 trades, 1 thread, cancel and update, 1 retry; lost replies, FAILURE, TIMEOUT, missing reports | `PendingHasRequest`, `ImplementsLedgerSafely` |
| `order_replace_restart` | 2 orders, 2 threads, a cancel or replace and one more request that a control rejects, refused and broken calls, a restart | `TypeOK`, `CompleteIsDone`, `RightBet`, `NeverUnderstated` |
| `order_liveness` | 2 orders, 2 trades, 2 threads, cancels, FAILURE reports, `max_live_trade_count` 1 | `LiveBetTracked`, `LiveTradeBound`, `ImplementsLedger` (with its fairness), `Answered`, `TradeReleased` |
| `order_partial_cancel` (violation) | as above with partial cancels | `CompleteIsDone` fails: the stream is faster than the cancel report, `size_cancelled == size_remaining`, half a bet goes on unwatched |
| `transaction_count` | 2 threads, packages of up to 2 orders, limit 0, 1 change of hour | `TypeOK`, `TotalsExact`, `NeverUndercounted`, `Overshoot` |
| `exposure` | 2 orders, back and lay, LIMIT and MARKET_ON_CLOSE, amounts and odds 1 and 2, cancels, replaces, a suspension, torn reads | `TypeOK`, `LimitKept`, `ReadIsCautious`, `ExposureIsWorstCase`; and, as assumptions of `MCExposure`, that `get_nearest_price` and `price_ticks_away` agree with their definitions around the ends of the bands, and that `Sum`, which counts units, agrees with the library's sum over a set |
| `exposure_rejected` (violation) | the same with cancels and a suspension | `SelectionLimit` fails: a cancel asked for in a suspended market marks an order VIOLATION whose bet is at the exchange, or on its way, and `get_exposures` forgets it |
| `backtest_matching` | 1 order of five kinds, 2 prices, stake 2, BSP market, suspension, partial cancel, update | `TypeOK`, `SizeConserved`, `NeverJumpsQueue`, `LiabilityBounded` |
| `backtest_replace` | 2 orders, one cancel or replace, suspension, removal, closure, latencies 0 and 1 | `OnePackage`, `LiveWatched`, `LapsedWhenSuspended`, `Answered`, `TradeLeaves` |
| `market_lifecycle` | 2 markets; one reopens, is sent closed twice, has 2 bets, pages of 1, a failing request, and is removed when the other closes | `TypeOK`, `NothingLost`, `FollowsExchange`, `BetsCleared` |
| `streams` | 3 strategies, two sharing a stream with snaps (the first asks for a subclass of the class the second asks for), one recording raw data; 2 updates each, 2 lost connections | `TypeOK`, `Delivered`, `CatchUp` |
| `shutdown` | 3 packages, 3 sessions, 1 pool thread, 1 retry, 1 worker, a logging control that may raise at the end | `TypeOK`, `SessionExclusive`, `OrdersLogged`, `LogoutHolds`, `ExitCompletes` |

*Why the bounds are enough.* Two orders let reports be swapped, missing or
misdirected; two threads let two packages of one order or trade overlap; one
retry is a repetition and its exhaustion; `Size` 2 tells a partial cancel from a
full one; one waiting snapshot is already an outdated one, and records of one
snapshot are processed one at a time between pool steps; two bets are an order
and its replacement or a wrongly repeated bet.  Two counting threads give every
interleaving of one addition with another and with the reset.  In a backtest two prices give
better, equal and worse; volume 2 exceeds queue plus remainder; two versions are
a suspension and a reopening; latencies 0 and 1 make a later package due first.
Two markets give a removal caused by another market's closing.  Two orders are enough
for one to be allowed on top of what is read of another (the theorem covers any number).
Two lost connections are two changes of id, or one for each of two streams; two
updates are one before and one after.  Three packages are one the main thread has in hand,
one of the pool thread and one that waits; those two threads take sessions from the same list,
and three sessions exceed its room of one.  (With two pool threads TLC finds all properties to hold as well, in 3.4
million states; `SessionSafe` and the other theorems cover any number.)
`MaxEvents`, `MaxRequests`, `MaxVolume`, `MaxVersion`, `MaxQueue` and the other `Max…` constants
of TLC are guards of the actions they bound.  `SYMMETRY` is used for the threads of
`TransactionCount` only, where nothing distinguishes them and nothing temporal is checked.

*Deadlock* is checked except in `backtest_replace` (an exception ends the run),
`market_lifecycle` (closed for good and removed, the markets of the instance have
nothing more to do), the two exposure runs (when both orders are used up and over) and
`shutdown` (the program exits).

*Fairness.*  `order_liveness`: WF of the main thread (the loop of `Flumine.run` takes
the next event), of each pool thread with the call it makes (a request returns or
raises), of the stream's next snapshot (`OrderStream.handle_output` takes one
at each timeout).  Nothing is assumed of the strategy, of matching
or of faults.  `backtest_replace`: WF of the engine, since `run` goes on with the
next book while there is data.  `market_lifecycle`: WF of the main thread and of the
worker (it runs every interval), SF of the stream for every market: the queue of the
model is bounded, that of the code is not, so that what is always possible in the code is
possible again and again in the model.  `streams`: WF of the main thread, of each stream's
thread (tenacity calls `run` again for ever) and of each output thread (its `get` has a timeout);
nothing is assumed of updates or lost connections, of which there are finitely many.
`shutdown`: WF of `__exit__`, of the executor's start of work, of the logging control and of
each package in hand (a request returns or raises); nothing is assumed of workers, whose
join has a timeout.  `OrderLedger` asks that the order of a bet that is over closes (`CloseMade`);
`order_liveness` shows the fairness of the threads implies it.

*Mutants.*  Every property has a mutant, an operator `X_Something` next to the
definition `X` it stands in for, that breaks it.

## 4. Proofs

Every theorem holds for any values of the constants, under the named `ASSUME`s of the modules
(which TLC evaluates in the runs) and the conditions the theorem states.

**Live orders** (`OrderExecutionProofs`, `OrderBetsProofs`).  The invariants build on
each other; each is kept by every action, with one lemma per action.

| theorem | inductive invariant | condition |
|---|---|---|
| `OrderTypeCorrect` (`TypeOK`) | `TypeInv` | |
| `RightBetSafe` | + `TrackedInv`, `BetInv` | `Aligned` |
| `NeverUnderstatedSafe` | + `ViewInv` | `Aligned` |
| `CompleteIsDoneSafe` | + `DoneInv` | `Aligned`, `FullCancels` |
| `PendingHasRequestSafe` | `WaitInv` and those up to `ViewInv` | `Aligned`, `NoReplaces` |
| `LiveBetTrackedSafe` | + `DoneInv`, `LiveInv` | `NoControls`, `FullCancels`, `SingleOrders` |
| `LiveTradeBoundSafe` | + `CountInv` | the same, and no restart |
| `ImplementsLedgerSafe` (`ImplementsLedgerSafely`) | + `LedgerInv`, without `LiveInv` | `NoControls`, `FullCancels`, `NoReplaces`, no restart |

* About `Selection`: what `Select` returns is a sequence over the elements kept, all of the list
  (`SelectAll`) or nothing (`SelectNone`) when every element or none passes; every element
  kept is there (`SelectKeeps`).
* `TypeOK` is not inductive: a thread indexes `exch` by bet ids in orders, instructions,
  reports and snapshots.  `TypeInv` says that those ids are below the number of bets there are
  *now* (`PackageAt(n)`, `SnapshotAt(n)`), that a thread applying reports has one at the head
  (`HeadOK`), and that the orders of a cancel, update or replace have bets (`HasBets`).
* `TrackedInv`: what the exchange was given is in the blotter (`BlotterInv`), no batch exceeds
  its bound (`BatchInv`), transactions and packages hold orders of the blotter (`HeldInv`).
* `BetInv`: reports and remaining instructions make up the orders of a package (`ShapeOK`),
  the bet a report will give (its *claim*) was placed for the order it is zipped with
  (`ClaimsOK`), and no two reports claim one bet (`ApartInv`).
* `ViewInv`: an order is submitted once (`OnceInv`) and has no bet until it is (`PlaceInv`);
  orders, records and reports say at least what is left (`OrderView`, `RecordView`,
  `ClaimView`).  All are statements about the past of a bet that only falls.
* `DoneInv`: `Settled(o)`, that `o` is not to be placed any more and nothing is left of any bet
  it has or will get, lasts; the reports that complete an order (`Final`) are for settled orders.
* `WaitInv`: an order that waits is in a transaction, in a package with an unapplied instruction or
  report of its kind, or was given up.  The look-up of cancel reports covers every order (`LookupCovers`).
* `LiveInv`: an order of the blotter has a counted trade or is settled (`KeptInv`), also
  between the two halves of `Trade.__exit__` (`ReleaseInv`).
* `LedgerInv`: one bet for an order (`OneBetInv`); an order nobody told of has all its size
  left (`UntoldInv`); reports come in the order of the package (`TurnInv`); records fall with time and
  below what the order has or is about to learn (`FallInv`).  Then every action is a step of
  `OrderLedger` or none (`NextMaps`): `ExchangePlace` is `Make`, `ExchangeMatch` and `ExchangeCancel`
  are `Fall`, `EnterTrade` is `Learn`, `ProcessCurrentOrder` is `Learn` or `Close`, `ApplyReport` is
  `Close`, `Reopen` or none, the requests are none.

The conditions are where the code stops keeping the promise (section 5), not conveniences:
`Aligned` (no control rejects a request about a live order, or packages have one order): `zip`
would pair reports with other orders.  `FullCancels` (no size reductions): the finding
of `order_partial_cancel`.  `NoReplaces`: a lost `new_price`, and two bets with one reference.
`SingleOrders` (`NoReplaces`, and no `multi_order_trades`): a trade forgotten while an order joins it.
`NoControls`: a live order marked VIOLATION.  A restart: `create_order_from_current` asks no
`validate_order`, and the orders begin again.  Refused, lost, broken, timed out, unreported and failed
requests, retries, late and missing reports, and asynchronous placing are allowed throughout.

**Backtest** (`BacktestProofs`).

* `OnePackageSafe` from `Structure` = `TypeInv` (the packages with `PackageInv`: an order
  has one at most, of the kind it waits for) and `LiveInv` (live orders and those to visit are distinct
  and placed).
* `TypeOKSafe`, `SizeConservedSafe`, `LiabilityBoundedSafe`, each *until a runner is removed*: a
  removal voids the whole size of an order cancelled in part, and `size_remaining`
  becomes negative (section 5).  `Effect(o)` lists what a step can do to one order
  (nothing, `Created`, `Put`, `Cut`, `AtStart`, `Lapses`, `Fills`, `Voids`); that a step has
  such an effect on every order is shown once, and `Sizes` is kept by each effect.
* `NeverJumpsQueueSafe` from `JumpInv`: the volume known, visited and counted is that of the
  book (`VolumeInv`), and an order's match is at most the flow since it was placed
  less what was ahead (`QueueInv`), the flow being that of the book before while the order has its turn to come.
* `WholeSafe`: in a market that removes no runner all of these hold without a condition.
* `LiveWatchedSafe`, removals included, from `WatchInv`: `OpenInv` (something left: live, not
  complete, and its trade neither), and what keeps it so (`ReductionInv`, `TradeInv`,
  `StartInv`, `PlaceInv`).
* `LapsedWhenSuspendedSafe` from `LapseInv` (`VersionInv`, `UnseenInv`, `TurnInv`): what is left of
  an order that lapses has not seen the suspension and has its turn to come.  No order may be updated:
  one changed to LAPSE in a market already suspended has seen it, and keeps what is left.

**The others.**

* `TransactionCountProofs`: `TypeCorrect`; `TotalsCorrect` (`[]TotalsExact`) from `LockInv`
  (exactly the lock holder is inside) and `TotalInv` (totals are what was
  completed plus what the holder has added); `CurrentCorrect` (`[]NeverUndercounted`)
  from `CurrentInv` (a loaded count is never below what was added since the
  reset, though the reset takes no lock); `OvershootBounded` (`[]Overshoot`) from
  `OvershootInv`, which weighs every order in flight or validated with the two counts it may
  still cause, summed over the threads.
* `ExposureProofs`: `TypeCorrect`; `LimitSafe` (`[]LimitKept`) and `ReadSafe`
  (`[]ReadIsCautious`).  The limit alone is not inductive: a control compares with what it
  reads.  `Sighted` says that of every bet the blotter's view is no better than the bet
  (`NoBetter`: it has matched no more and leaves at least as much to lose), so that what is
  read bounds what is true; with it `SelectionLimit` is kept by placements (the new order is
  within what is left) and by matching, lapsing and cancelling, which only improve the
  worst case.  Both hold until `Blind`, which never ends.  `Sum` counts units, so
  that its lemmas (`SumMono`, `SumAdd`) rest on cardinalities and need no recursion.
  `WorstCaseExact` (`[]ExposureIsWorstCase`): every set of further matches does at least as well as what
  `get_exposures` says, term by term, and the set of all that lose on that outcome does exactly as badly.
  With `LimitSafe` this gives `OutcomesSafe`: no part of the bets at the exchange that is matched next
  makes the selection lose more than `max_selection_exposure`.
  `NearestOnLadder` and `NearestIsNear` are about `Prices`, by cases on the ten bands.
* `MarketLifecycleProofs`: `TypeSafe` (`[]TypeOK`) from `TypeInv`, which adds what the bound on
  objects needs (an expired object leaves room for the next, `Sound`) and that the markets of the worker were
  made (`WorkerOK`); `NeverBack`, the action property that a removed object never comes back
  (`RemovedForGood`).  `NothingLostSafe` (`[]NothingLost`) from `LostInv`.  `NothingLost` alone is not
  inductive: it says nothing until the flag is set.  `Paged` follows the pages: the cleared orders
  of the bets up to `from` have been put on the queue or are in the blotter (`Delivered`), and those
  of all bets once the last page was put.  That the last page is the last needs `Placed` (the blotter has no
  bet the exchange has not taken) and `NotClosedYet` (until the exchange first closes a market no
  event, flag or poll says that it is closed, so that no bet is placed behind the back of a poll).  After a
  reopening this is false, hence the condition `reopens = 0`; queue, failures, removals by other
  markets and closures sent again are unrestricted.
* `ShutdownProofs`: `SessionSafe` (`[]SessionExclusive`) from exactly which places of a package
  have a session (`HoldersKnown`), that it is nobody else's (`NotShared`), and that the
  work queue has each queued package once; `LoggedSafe` (`[]OrdersLogged`, the bets of calls
  that raised excepted) adds where the main thread is (`PoolInv`: after the pool has been joined nothing is in hand) and that the
  terminating event is behind every order event (`LogInv`); `LogoutSafe` (`[]LogoutHolds`) from
  `WorkerInv` (a worker shut down between two rounds has stopped for good); `TypeOKSafe`
  (`[]TypeOK`) from those and `RestOK`.
* `StreamsProofs`: `DeliveredSafe` (`[]Delivered`) if fewer connections are lost than the ids
  of two streams are apart (`MaxDrops < IdStep - 1`, that is 999).  `IdsOK` bounds the ids of a
  stream by the connections lost, `QueuesOK` gives every message an id its listener
  had, so that an id belongs to one stream (`IdsApart`); `AllArrive` follows each book through the
  output queue, `handler_queue` and the event in hand.  `ThreadStep` says what all
  the steps of the stream threads have in common, and is shown once to keep the invariant.
  `TypeOKSafe` (`[]TypeOK`), for finitely many filters, adds `TInv`: every stream is asked for
  something else (`Distinct`: a stream is made only when none serves), so that there are no more streams than filters
  (`StreamsAreFew`), and none has received more than its market has changed (`CacheOK`).

Only model-checked: liveness and everything under fairness, which no prover here does
(`Answered`, `TradeReleased`, `TradeLeaves`, `FollowsExchange`, `BetsCleared`, `CatchUp`, `ExitCompletes`,
and that orders close in the end, the difference between `ImplementsLedger` and
`ImplementsLedgerSafely`).  Every invariant of the passing runs is stated by a theorem, under the
conditions given here.  Nothing is proved of `price_ticks_away`, whose index is the cardinality of a
set of prices.

## 5. What the models showed

Two disagreements with the repository's own words are findings with a run each
(`order_partial_cancel`, `exposure_rejected`).  Others that the models showed, and the reason
for the conditions of some runs and properties:

*Orders.*
* `PendingHasRequest` fails without any fault once strategies replace orders: `executable()`
  publishes EXECUTABLE before it clears `update_data`, a replace asked for in between loses its
  `new_price`, and the order stays REPLACING.  Therefore `order_faults` leaves REPLACE out.
* `LiveBetTracked` fails with replaces, with rejected requests and with partial cancels, and
  `LiveTradeBound` after a restart, hence the kinds of `order_liveness`.  With `multi_order_trades`
  both fail without any of them: a strategy that places an order in a trade between the two halves of
  `Trade.__exit__` (`trade.py:55-65`, the test that all orders are complete and the
  reset of `complete_trade`) has its live trade forgotten.
* `zip(order_package, reports)` reads the orders of the package again, without those a
  control marked VIOLATION since the request was sent: in a package of two or more every later
  report goes to another order (`betfairexecution.py`, `orderpackage.py`).  `RightBet`,
  `NeverUnderstated`, `CompleteIsDone` and `PendingHasRequest` are proved without such controls, or for
  packages of one order (`Aligned`).
* Between the two halves of a replace a trade has no live order and is released, so that
  another trade may start: `max_live_trade_count` is exceeded (`trade.py:172`).
* A control that rejects a cancel marks a live order VIOLATION, "order never placed due to
  failing controls" (`order.py:38`); the `order.executable()` after `_on_error`, which raises, is
  never reached.  The controls run before the check of the status, so that an order that waits for
  a reply is marked too, and the reply is then not processed.
* The reset of `MaxTransactionCount` takes no lock: a thread may store the old hour's count
  over it (`clientcontrols.py:81`).  `NeverUndercounted` is what remains true.

*Exposure.*
* A replace is validated with its old price, so that a lay replaced at a higher one exceeds
  `max_selection_exposure` (`tradingcontrols.py:166`); the new price is not validated at all.
* While a replace is on its way the stream may show the old bet gone before the
  replacement is in the blotter.
* `get_exposures` may read an order while its place response is stored.
* A failed place counts in the exposure for ever, which errs on the safe side.

`Blind` excepts replacements, orders of the blotter marked VIOLATION and torn reads from `LimitKept`
and `ReadIsCautious`, and nothing else.

*Backtest.*
* A simulated replace goes on after its cancel failed and makes a replacement of size None
  (`simulatedexecution.py:125`).
* The package of a replace whose order was voided with its runner has no `new_price` any more: a KeyError
  in `create_replace_instruction` ends the backtest (`order.py:392-395`).
* A runner removal voids the whole size of an order that was cancelled in
  part: `size_remaining` becomes negative and the order never completes.  A replacement that
  is not placed stays in `Trade.orders` and its trade never completes.
* `trades.md:34-35` describes `place_reset_seconds` and `reset_seconds` with their meanings exchanged.

*Markets, streams, shutdown.*
* In `poll_market_closure` a flag set after the market was reopened hides its next
  closure, and `NothingLost` fails for a market that was reopened; an empty answer counts as cleared at the order level but not at the market level.
* A reconnection changes `stream_id`: books and raw data queued with the old id are passed
  over, raw data for good.  A snap is taken in a step after its timeout and may be newer than a book
  put in the queue meanwhile: a strategy can be given version 2, then 1, then 2.
  Ids of two streams are 1000 apart: after that many reconnections they could meet.
* A worker sets `_running` after its start delay, so that a shutdown during the delay is
  lost and `keep_alive` may log in after the logout (`worker.py:52`).
* When `_process_end_flumine` raises, the logging control never puts its `None` and `__exit__` waits
  for it for ever (`loggingcontrols.py:77`).
* A retry after the pool was shut down is refused with an exception in a Future nobody reads: the order
  keeps waiting, and a bet the first call placed after all is logged by nobody.  A logout that raises
  leaves `__exit__` with its exception and the client logged in.  The list of sessions may exceed `max_workers`, up to one append per thread
  that has passed the check.

## 6. Not modelled, and why

* Configuration, exceptions, patching: constants and replaced methods without state.
* `poll_market_catalogue`, CUSTOM_EVENT, account details and funds: one call, a `try` and an
  assignment each.
* `MarketRecorder` and the example strategies: files and uploads around `process_raw_data`, whose
  delivery `Streams` models.
* Historical streams and the simulated order stream: generators over files; their books are the inputs of `Backtest`.
* Paper trading: `SimulatedExecution` on pool threads.
* Seconds and trade counts: `place_reset_seconds`, `reset_seconds` and `max_trade_count` are a choice in
  `OrderExecution` (`RejectPlace`), `MAX_SESSION_AGE` one in `Shutdown`; `Exposure` counts trades and leaves the seconds out.
* The price adjustment of orders on other runners after a removal, profit, and the helpers
  of `utils.py` that read a book, a file or a hash: pure functions of data the models abstract.
* Quantities that only describe (info dictionaries, notes, log lines).

## 7. Plan

Done: the nine models, the refinement, and the theorems of section 4.  Left, in this order:

1. Paper trading (the simulated execution on pool threads), and the end of a backtest
   stream with packages still pending (`backtest.py:96`).
2. Time in `Exposure`: the reset seconds of the runner context.
