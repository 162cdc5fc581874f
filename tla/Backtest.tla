------------------------------ MODULE Backtest ------------------------------
(***************************************************************************)
(* One market of a backtest (backtest/backtest.py): market books are       *)
(* processed one after the other, and for each of them, in this order,     *)
(*   - the pending order packages whose latency is over are executed       *)
(*     (execution/simulatedexecution.py) against the book before it,       *)
(*   - the middleware works out what was traded since (RunnerAnalytics)    *)
(*     and matches the live orders (backtest/simulated.py),                *)
(*   - completed orders are taken out of the blotter's live orders,        *)
(*   - the strategy is called and asks for new packages.                   *)
(* Everything happens on one thread.  A step is what is done for one       *)
(* package or for one order; a package holds one order.  Orders are on one *)
(* runner.  Volumes are counted in pairs, half of what is traded being     *)
(* someone else's side of the bet.                                         *)
(***************************************************************************)
EXTENDS Integers, FiniteSets, SequencesExt

CONSTANTS
  Order,               \* order objects
  Price,               \* prices, decimal odds
  Ladders,             \* what the books offer: [back, lay : [Price -> Nat]]
  Statuses,            \* market statuses the stream shows
  Terms,               \* what the strategy orders, see TermsType
  Size,                \* the stake, or liability, of an order
  MaxVolume,           \* bound on the volume traded at a price
  MaxVersion,          \* bound on the versions of the market
  MaxElapsed,          \* bound on the time between two books
  MaxRequests,         \* bound on the cancels, updates and replaces
  Delay,               \* OrderPackage.simulated_delay of a package type
  Kinds,               \* requests the strategy makes after placing
  Reductions,          \* size_reduction values it cancels with, 0 for None
  Removals,            \* the runner may be removed
  BspMarket,           \* market_definition.bsp_market
  Prices,              \* starting prices, 0 when there is none
  BestPriceExecution,  \* client.best_price_execution
  MinLiability         \* client.min_bsp_liability

TermsType ==
  [ kind        : {"LIMIT", "LIMIT_ON_CLOSE", "MARKET_ON_CLOSE"},
    side        : {"BACK", "LAY"},
    price       : Price,
    persistence : {"LAPSE", "PERSIST", "MARKET_ON_CLOSE"} ]
PackageType == {"PLACE", "CANCEL", "UPDATE", "REPLACE"}

ASSUME PriceAssumption == IsFiniteSet(Price) /\ Price \subseteq Nat \ {0, 1}
ASSUME MarketAssumption ==
  /\ Ladders \subseteq [back : [Price -> Nat], lay : [Price -> Nat]]
  /\ Statuses \subseteq {"OPEN", "SUSPENDED", "CLOSED"}
  /\ Prices \subseteq Price \cup {0}
  /\ Removals \in BOOLEAN /\ BspMarket \in BOOLEAN
ASSUME BoundAssumption ==
  /\ Size \in Nat \ {0} /\ MaxVolume \in Nat /\ MaxVersion \in Nat
  /\ MaxElapsed \in Nat \ {0} /\ MaxRequests \in Nat /\ MinLiability \in Nat
  /\ Delay \in [PackageType -> Nat]
ASSUME StrategyAssumption ==
  /\ Terms \subseteq TermsType
  /\ Kinds \subseteq {"CANCEL", "UPDATE", "REPLACE"}
  /\ Reductions \subseteq 0..Size
  /\ BestPriceExecution \in BOOLEAN

VARIABLES
  status,      \* Order.status
  terms,       \* Order.order_type, with the side and the size of the order
  sim,         \* Order.simulated
  reduction,   \* Order.update_data["size_reduction"], 0 when absent or None
  newPrice,    \* Order.update_data["new_price"], 0 when absent
  trade,       \* Order.trade, named by its first order
  tstatus,     \* Trade.status
  live,        \* Blotter._live_orders
  queue,       \* FlumineBacktest.handler_queue: the pending packages
  phase,       \* where _process_market_books is
  todo,        \* the orders its current loop has still to visit
  incoming,    \* the market book being processed
  book,        \* Market.market_book
  volume,      \* RunnerAnalytics._p_v
  traded,      \* RunnerAnalytics.traded
  removed,     \* SimulatedMiddleware._runner_removals holds the runner
  closed,      \* Market.closed
  raised,      \* an exception has ended the backtest
  history,     \* what a reader of the book would note down for each order
  requests     \* cancels, updates and replaces asked for so far

orderVars == <<status, terms, sim, reduction, newPrice, trade, history>>
engineVars == <<queue, phase, todo, incoming, requests>>
marketVars == <<book, volume, traded, removed, closed>>
vars == <<orderVars, tstatus, live, engineVars, marketVars, raised>>

-----------------------------------------------------------------------------
Least(a, b) == IF a < b THEN a ELSE b
Most(a, b) == IF a > b THEN a ELSE b
\* The sum of f over S, counted unit by unit
Units(f, S) == UNION {{x} \X (1..f[x]) : x \in S}
Sum(f, S) == Cardinality(Units(f, S))
NoVolume == [x \in Price |-> 0]
Complete == {"EXECUTION_COMPLETE", "VIOLATION"}
Awaiting == {"PENDING", "CANCELLING", "UPDATING", "REPLACING"}
Requested == [CANCEL |-> "CANCELLING", UPDATE |-> "UPDATING", REPLACE |-> "REPLACING"]

NewSimulated == [matched |-> 0, cost |-> 0, cancelled |-> 0, lapsed |-> 0, voided |-> 0,
                 piq |-> 0, version |-> 0, reconciled |-> FALSE]
NewHistory == [ahead |-> 0, taken |-> 0, base |-> NoVolume]
FirstBook == [status |-> "OPEN", version |-> 1, removed |-> FALSE, reconciled |-> FALSE,
              sp |-> 0, volume |-> NoVolume,
              back |-> NoVolume, lay |-> NoVolume]
NoTerms == [kind |-> "LIMIT", side |-> "BACK", price |-> 0, persistence |-> "LAPSE",
            size |-> 0]

Init ==
  /\ status = [o \in Order |-> "None"]
  /\ terms = [o \in Order |-> NoTerms]
  /\ sim = [o \in Order |-> NewSimulated]
  /\ history = [o \in Order |-> NewHistory]
  /\ reduction = [o \in Order |-> 0]
  /\ newPrice = [o \in Order |-> 0]
  /\ trade = [o \in Order |-> o]
  /\ tstatus = [t \in Order |-> "LIVE"]
  /\ live = <<>> /\ queue = <<>> /\ todo = <<>>
  /\ phase = "orders"
  /\ book = FirstBook /\ incoming = FirstBook
  /\ volume = NoVolume /\ traded = NoVolume
  /\ removed = FALSE /\ closed = FALSE /\ raised = FALSE
  /\ requests = 0

-----------------------------------------------------------------------------
(* Orders and trades *)

Known == {o \in Order : status[o] \notin {"None", "New"}}
Unused == {o \in Order : status[o] = "None"}
\* A uuid is never used twice; which unused one it is does not matter.
Fresh(S) == CHOOSE x \in S : TRUE

\* Trade.complete, for order statuses st; an order is known to its trade from
\* its creation on, placed or not.
AllComplete(t, st) == \A o \in Order : trade'[o] = t /\ st[o] # "None" => st[o] \in Complete

\* Mutant: only Trade.__exit__ completes a trade.
UpdateStatus_ExitOnly(o, s) ==
  status' = [status EXCEPT ![o] = s] /\ UNCHANGED tstatus
\* BaseOrder._update_status outside `with order.trade`
UpdateStatus(o, s) ==
  /\ status' = [status EXCEPT ![o] = s]
  /\ tstatus' = IF tstatus[trade[o]] = "LIVE" /\ AllComplete(trade[o], status')
                THEN [tstatus EXCEPT ![trade[o]] = "COMPLETE"] ELSE tstatus
\* Trade.__exit__: LIVE again, and complete if all its orders are
ExitTrade(t) ==
  tstatus' = [tstatus EXCEPT ![t] = IF AllComplete(t, status') THEN "COMPLETE" ELSE "LIVE"]

\* Simulated.size_remaining
Left(t, s) ==
  IF t.kind = "LIMIT" THEN t.size - s.matched - s.cancelled - s.lapsed - s.voided ELSE 0
Remaining(o) == Left(terms[o], sim[o])
\* Simulated.take_sp
TakeSP(t) == t.kind # "LIMIT" \/ t.persistence = "MARKET_ON_CLOSE"
\* As good a price as the order asks for, or better
AsGood(t, x) == IF t.side = "BACK" THEN x >= t.price ELSE x <= t.price

-----------------------------------------------------------------------------
(* Simulated.place *)

Offers(t) == IF t.side = "BACK" THEN book.back ELSE book.lay
Rivals(t) == IF t.side = "BACK" THEN book.lay ELSE book.back
Matching(t) == {x \in Price : Offers(t)[x] > 0 /\ AsGood(t, x)}
\* _process_price_matched: of the units that match, the best price first, as many
\* as the order has
Before(t, u, v) ==
  IF u[1] = v[1] THEN u[2] <= v[2] ELSE AsGood([t EXCEPT !.price = v[1]], u[1])
Taken(t) ==
  LET offered == Units(Offers(t), Matching(t)) IN
  {u \in offered : Cardinality({v \in offered : Before(t, v, u)}) <= t.size}

\* The market, its version, the runner, or BSP betting rules the bet out.
Refused(t, version) ==
  \/ book.status # "OPEN"
  \/ version # 0 /\ version # book.version
  \/ book.removed
  \/ t.kind # "LIMIT" /\ (~BspMarket \/ book.reconciled)
TooGood(t) ==
  /\ t.kind = "LIMIT" /\ ~BestPriceExecution
  /\ \E x \in Matching(t) : x # t.price

Placed(t, version) ==
  LET new == [NewSimulated EXCEPT !.version = IF book.status = "OPEN" THEN book.version ELSE 0]
  IN CASE Refused(t, version) -> [new EXCEPT !.voided = Left(t, new)]
       [] ~Refused(t, version) /\ TooGood(t) -> [new EXCEPT !.lapsed = Left(t, new)]
       [] OTHER ->
            [new EXCEPT
               !.matched = IF t.kind = "LIMIT" THEN Cardinality(Taken(t)) ELSE 0,
               !.cost = IF t.kind = "LIMIT" THEN Sum([u \in Taken(t) |-> u[1]], Taken(t)) ELSE 0,
               !.piq = IF t.kind = "LIMIT" /\ Matching(t) = {} THEN Rivals(t)[t.price] ELSE 0]
PlaceSucceeds(t, version) == ~Refused(t, version) /\ ~TooGood(t)
\* What was ahead of the order, and traded before it, when it was placed
Noted(t, s) == [ahead |-> s.piq, taken |-> s.matched, base |-> book.volume]

-----------------------------------------------------------------------------
(* FlumineBacktest._check_pending_packages and SimulatedExecution *)

Due(p) == p.age > Delay[p.type]
DueNow == {i \in DOMAIN queue : Due(queue[i])}
NextDue == queue[CHOOSE i \in DueNow : \A j \in DueNow : i <= j]
\* list.remove
Without(s, e) ==
  IF e \in Range(s) THEN RemoveAt(s, CHOOSE i \in DOMAIN s : s[i] = e) ELSE s
\* Mutant: the packages that are not due are dropped with those that are.
QueueLeft_Cleared == <<>>
QueueLeft == Without(queue, NextDue)
Executing(type, left) ==
  /\ phase = "packages" /\ ~raised
  /\ DueNow # {} /\ NextDue.type = type
  /\ queue' = left
  /\ UNCHANGED <<phase, todo, incoming, requests, marketVars>>

ClearData(o) ==
  /\ reduction' = [reduction EXCEPT ![o] = 0]
  /\ newPrice' = [newPrice EXCEPT ![o] = 0]

ExecutePlace ==
  LET o == NextDue.order
      s == Placed(terms[o], NextDue.version) IN
  /\ Executing("PLACE", QueueLeft)
  /\ sim' = [sim EXCEPT ![o] = s]
  /\ history' = [history EXCEPT ![o] = Noted(terms[o], s)]
  /\ UNCHANGED <<terms, trade, live, raised>>
  /\ status' = [status EXCEPT ![o] = IF PlaceSucceeds(terms[o], NextDue.version)
                                     THEN "EXECUTABLE" ELSE "EXECUTION_COMPLETE"]
  /\ ExitTrade(trade[o])
  /\ ClearData(o)

\* Simulated.cancel: size_cancelled
CancelledSize(o) ==
  IF reduction[o] # 0 THEN Least(reduction[o], Remaining(o)) ELSE Remaining(o)
CancelSucceeds(o) == book.status = "OPEN" /\ terms[o].kind = "LIMIT"
\* Mutant: an order whose cancel fails keeps its status.
AfterCancel_Kept(o, left) ==
  IF ~CancelSucceeds(o) THEN status[o] ELSE IF left = 0 THEN "EXECUTION_COMPLETE" ELSE "EXECUTABLE"
AfterCancel(o, left) ==
  IF CancelSucceeds(o) /\ left = 0 THEN "EXECUTION_COMPLETE" ELSE "EXECUTABLE"

ExecuteCancel ==
  LET o == NextDue.order IN
  /\ Executing("CANCEL", QueueLeft)
  /\ sim' = IF CancelSucceeds(o)
            THEN [sim EXCEPT ![o].cancelled = @ + CancelledSize(o)] ELSE sim
  /\ UNCHANGED <<terms, trade, live, history, raised>>
  /\ status' = [status EXCEPT ![o] = AfterCancel(o, Left(terms[o], sim'[o]))]
  /\ ExitTrade(trade[o])
  /\ ClearData(o)

\* SUCCESS or FAILURE, the order is executable again; it has had the new
\* persistence since BetfairOrder.update.
ExecuteUpdate ==
  LET o == NextDue.order IN
  /\ Executing("UPDATE", QueueLeft)
  /\ UNCHANGED <<sim, terms, trade, live, history, raised>>
  /\ status' = [status EXCEPT ![o] = "EXECUTABLE"]
  /\ ExitTrade(trade[o])
  /\ ClearData(o)

\* The cancel succeeds, then the replacement is placed for what was cancelled.
\* There is an unused order for it (OrdersLeft).
ExecuteReplace ==
  LET o == NextDue.order
      n == Fresh(Unused)
      t == [terms[o] EXCEPT !.price = newPrice[o], !.size = CancelledSize(o)]
      s == Placed(t, NextDue.version)
      ok == PlaceSucceeds(t, NextDue.version) IN
  /\ Executing("REPLACE", QueueLeft)
  /\ newPrice[o] # 0 /\ CancelSucceeds(o) /\ Unused # {}
  /\ terms' = [terms EXCEPT ![n] = t]
  /\ sim' = [sim EXCEPT ![o].cancelled = @ + CancelledSize(o), ![n] = s]
  /\ history' = [history EXCEPT ![n] = Noted(t, s)]
  /\ trade' = [trade EXCEPT ![n] = trade[o]]
  /\ live' = IF ok THEN Append(live, n) ELSE live
  /\ UNCHANGED raised
  /\ status' = IF ok THEN [status EXCEPT ![o] = "EXECUTION_COMPLETE", ![n] = "EXECUTABLE"]
                     ELSE [status EXCEPT ![o] = "EXECUTABLE", ![n] = "New"]
  /\ ExitTrade(trade[o])
  /\ ClearData(o)

\* The cancel fails, the code goes on to place a replacement of size None, and
\* computing with it raises a TypeError that nothing catches.
FailReplace ==
  LET o == NextDue.order
      n == Fresh(Unused) IN
  /\ Executing("REPLACE", queue)
  /\ newPrice[o] # 0 /\ ~CancelSucceeds(o) /\ Unused # {}
  /\ trade' = [trade EXCEPT ![n] = trade[o]]
  /\ status' = [status EXCEPT ![o] = "EXECUTABLE", ![n] = "New"]
  /\ tstatus' = [tstatus EXCEPT ![trade[o]] = "PENDING"]
  /\ ClearData(o)
  /\ raised' = TRUE
  /\ UNCHANGED <<terms, sim, live, history>>

\* The order was completed meanwhile, voided with its runner, and has no new price:
\* a KeyError that nothing catches either (create_replace_instruction).
FailInstruction ==
  /\ Executing("REPLACE", queue)
  /\ newPrice[NextDue.order] = 0
  /\ raised' = TRUE
  /\ UNCHANGED <<orderVars, tstatus, live>>

-----------------------------------------------------------------------------
(* The market stream and FlumineBacktest._process_market_books *)

\* The next book of the stream; a new status makes a new version.
NextBook ==
  /\ phase = "orders" /\ todo = <<>> /\ ~raised
  /\ \E s \in Statuses, l \in Ladders, r \in BOOLEAN, g \in BOOLEAN, sp \in Prices,
        x \in Price, more \in 0..MaxVolume, d \in 1..MaxElapsed :
       /\ r => Removals
       /\ g => BspMarket
       /\ incoming.removed => r
       /\ incoming.reconciled => g /\ sp = incoming.sp
       /\ ~g => sp = Fresh(Prices)
       /\ incoming.volume[x] + more <= MaxVolume
       /\ more = 0 => x = Fresh(Price)
       /\ s # incoming.status => incoming.version < MaxVersion
       /\ incoming' =
            [ status |-> s, removed |-> r, reconciled |-> g, sp |-> sp,
              version |-> incoming.version + (IF s # incoming.status THEN 1 ELSE 0),
              volume |-> [incoming.volume EXCEPT ![x] = @ + more],
              back |-> l.back, lay |-> l.lay ]
       /\ queue' = [i \in DOMAIN queue |->
                      [queue[i] EXCEPT !.age = Least(@ + d, 1 + Delay[queue[i].type])]]
  /\ phase' = "packages"
  /\ UNCHANGED <<orderVars, tstatus, live, todo, requests, marketVars, raised>>

\* BaseFlumine._process_close_market: market.market_book is the one before.
CloseMarket ==
  /\ phase = "packages" /\ DueNow = {} /\ ~raised
  /\ incoming.status = "CLOSED"
  /\ closed' = TRUE
  /\ phase' = "orders"
  /\ UNCHANGED <<orderVars, tstatus, live, queue, todo, incoming, requests, book, volume,
                 traded, removed, raised>>

\* Mutant: every update counts the volume from the beginning.
TradedSince_Start(b) == b.volume
\* RunnerAnalytics._calculate_traded; a runner that is not in the update has the
\* volume it had, and nothing traded.
TradedSince(b) == [x \in Price |-> Most(0, b.volume[x] - volume[x])]
\* SimulatedMiddleware._process_runner_removal, for an order on the runner
Voided(o) == [sim[o] EXCEPT !.matched = 0, !.cost = 0, !.voided = terms[o].size]

\* The market takes the book, RunnerAnalytics the volume of an active runner;
\* the orders of a runner are voided once, when it is removed.
UpdateMarket ==
  /\ phase = "packages" /\ DueNow = {} /\ ~raised
  /\ incoming.status # "CLOSED"
  /\ closed' = FALSE
  /\ book' = incoming
  /\ IF incoming.removed
     THEN UNCHANGED <<volume, traded>>
     ELSE traded' = TradedSince(incoming) /\ volume' = incoming.volume
  /\ removed' = (removed \/ incoming.removed)
  /\ sim' = IF incoming.removed /\ ~removed
            THEN [o \in Order |-> IF o \in Known THEN Voided(o) ELSE sim[o]] ELSE sim
  /\ phase' = "match"
  /\ todo' = live
  /\ UNCHANGED <<status, terms, reduction, newPrice, trade, history, tstatus, live, queue,
                 incoming, requests, raised>>

-----------------------------------------------------------------------------
(* Simulated.__call__, for the next order of _process_simulated_orders *)

Matched(s, size, price) ==
  [s EXCEPT !.matched = @ + size, !.cost = @ + price * size]
Visit(o) == phase = "match" /\ todo # <<>> /\ o = Head(todo)
Visited ==
  /\ todo' = Tail(todo)
  /\ UNCHANGED <<terms, trade, live, phase, queue, incoming, requests, marketVars, raised>>

Matchable(o) == status[o] = "EXECUTABLE"
AtSP(o) == ~sim[o].reconciled /\ book.reconciled /\ TakeSP(terms[o])

\* Not live, or nothing left of it
PassOrder(o) ==
  /\ Visit(o)
  /\ ~Matchable(o) \/ (~AtSP(o) /\ Remaining(o) = 0)
  /\ Visited
  /\ UNCHANGED <<status, tstatus, sim, history, reduction, newPrice>>

\* round(a / b, 2), in the model's unit
Rounded(a, b) == (2 * a + b) \div (2 * b)
\* The bet is off at this starting price.
Unacceptable(o) ==
  \/ terms[o].kind = "LIMIT_ON_CLOSE" /\ ~AsGood(terms[o], book.sp)
  \/ /\ terms[o].kind = "LIMIT" /\ terms[o].side = "LAY"
     /\ (terms[o].price - 1) * Remaining(o) < MinLiability
\* Mutant: a lay bet keeps its size whatever the starting price.
SPSize_Stake(o) == IF terms[o].kind = "LIMIT" THEN Remaining(o) ELSE terms[o].size
\* The size matched at the starting price: the stake, or what the liability pays
SPSize(o) ==
  LET t == terms[o]
      asked == IF t.kind = "LIMIT" THEN Remaining(o) ELSE t.size
      risk == IF t.kind = "LIMIT" THEN (t.price - 1) * asked ELSE asked IN
  IF t.side = "BACK" THEN asked ELSE Rounded(risk, book.sp - 1)

\* Simulated after _process_sp
Reconciled(o) ==
  IF Unacceptable(o)
  THEN [sim[o] EXCEPT !.reconciled = TRUE, !.lapsed = @ + Remaining(o)]
  ELSE [Matched(sim[o], SPSize(o), book.sp) EXCEPT
          !.reconciled = TRUE,
          !.cancelled = IF terms[o].kind = "LIMIT" THEN @ + Remaining(o) - SPSize(o) ELSE @]
MatchAtSP(o) ==
  /\ Visit(o) /\ Matchable(o)
  /\ AtSP(o) /\ book.sp # 0
  /\ sim' = [sim EXCEPT ![o] = Reconciled(o)]
  /\ history' = [history EXCEPT ![o].taken =
                   @ + (IF Unacceptable(o) THEN 0 ELSE SPSize(o))]
  /\ Visited
  /\ UpdateStatus(o, "EXECUTION_COMPLETE")
  /\ ClearData(o)

\* "SP not available": the order is left as it is.
NoSP(o) ==
  /\ Visit(o) /\ Matchable(o)
  /\ AtSP(o) /\ book.sp = 0
  /\ Visited
  /\ UNCHANGED <<status, tstatus, sim, history, reduction, newPrice>>

\* Mutant: the version is noted before it is compared.
MaterialChange_Noted(o) == FALSE
\* A suspension with a new version, for an order that does not survive it
MaterialChange(o) ==
  /\ book.version # sim[o].version /\ book.status = "SUSPENDED"
  /\ terms[o].persistence = "LAPSE"

Lapse(o) ==
  /\ Visit(o) /\ Matchable(o)
  /\ ~AtSP(o) /\ Remaining(o) # 0
  /\ MaterialChange(o)
  /\ sim' = [sim EXCEPT ![o].version = book.version, ![o].lapsed = @ + Remaining(o)]
  /\ Visited
  /\ UNCHANGED <<status, tstatus, history, reduction, newPrice>>

\* Mutant: more is matched than is left of the order.
FillSize_All(o, flow) == Most(0, flow - sim[o].piq)
\* Mutant: the queue is not compared with what was traded.
FillSize_Unguarded(o, flow) == Least(Remaining(o), flow - sim[o].piq)
\* Simulated._calculate_process_traded, for all that was traded at a price the
\* order accepts: the queue ahead of the order comes first.
FillSize(o, flow) ==
  IF flow > sim[o].piq THEN Least(Remaining(o), flow - sim[o].piq) ELSE 0
\* What was traded since the last book at a price the order accepts
AcceptedFlow(o) == Sum(traded, {x \in Price : AsGood(terms[o], x)})
Filled(o) ==
  [Matched(sim[o], FillSize(o, AcceptedFlow(o)), terms[o].price) EXCEPT
     !.version = book.version, !.piq = Most(0, @ - AcceptedFlow(o))]
MatchTraded(o) ==
  /\ Visit(o) /\ Matchable(o)
  /\ ~AtSP(o) /\ Remaining(o) # 0
  /\ ~MaterialChange(o)
  /\ sim' = [sim EXCEPT ![o] = Filled(o)]
  /\ Visited
  /\ UNCHANGED <<status, tstatus, history, reduction, newPrice>>

\* The middleware is done: _process_backtest_orders begins.
EndMatching ==
  /\ phase = "match" /\ todo = <<>>
  /\ phase' = "orders"
  /\ todo' = live
  /\ UNCHANGED <<orderVars, tstatus, live, queue, incoming, requests, marketVars, raised>>

-----------------------------------------------------------------------------
(* FlumineBacktest._process_backtest_orders *)

\* The exchange is done with the order.
Done(o) == IF terms[o].kind = "LIMIT" THEN Remaining(o) = 0 ELSE sim[o].reconciled
\* Mutant: every completed order leaves, its trade still open or not.
Leaves_NotLive(o) == status'[o] # "EXECUTABLE"
Leaves(o) == tstatus'[trade[o]] = "COMPLETE"
ProcessOrder(o) ==
  /\ phase = "orders" /\ todo # <<>> /\ o = Head(todo)
  /\ IF Done(o)
     THEN /\ UNCHANGED trade
          /\ UpdateStatus(o, "EXECUTION_COMPLETE") /\ ClearData(o)
     ELSE UNCHANGED <<status, trade, tstatus, reduction, newPrice>>
  /\ live' = IF Leaves(o) THEN Without(live, o) ELSE live
  /\ todo' = Tail(todo)
  /\ UNCHANGED <<terms, sim, history, phase, queue, incoming, requests, marketVars, raised>>

-----------------------------------------------------------------------------
(* The strategy, through Market.place_order, cancel_order, ... *)

Callback == phase = "orders" /\ todo = <<>> /\ ~closed /\ ~raised
Send(o, type, version) ==
  queue' = Append(queue, [type |-> type, order |-> o, age |-> 0, version |-> version])
\* An unused order for every replacement under way (bound only)
OrdersLeft ==
  Cardinality({i \in DOMAIN queue : queue[i].type = "REPLACE"}) < Cardinality(Unused)

\* market_version: None, or that of the book
PlaceOrder(t, version) ==
  LET o == Fresh(Unused) IN
  /\ Callback /\ OrdersLeft
  /\ status' = [status EXCEPT ![o] = "PENDING"]
  /\ terms' = [terms EXCEPT ![o] =
                 [ kind |-> t.kind, side |-> t.side, price |-> t.price,
                   persistence |-> t.persistence, size |-> Size ]]
  /\ live' = Append(live, o)
  /\ Send(o, "PLACE", version)
  /\ UNCHANGED <<sim, reduction, newPrice, trade, history, tstatus, phase, todo, incoming,
                 requests, marketVars, raised>>

\* BetfairOrder.cancel, update, replace, what they have in common
Request(o, type, version) ==
  /\ Callback
  /\ type \in Kinds
  /\ requests < MaxRequests
  /\ requests' = requests + 1
  /\ status[o] = "EXECUTABLE"
  /\ status' = [status EXCEPT ![o] = Requested[type]]
  /\ Send(o, type, version)
  /\ UNCHANGED <<sim, trade, history, tstatus, live, phase, todo, incoming, marketVars,
                 raised>>
CancelOrder(o, r) ==
  /\ Request(o, "CANCEL", 0)
  /\ terms[o].kind = "LIMIT"
  /\ r <= Remaining(o)
  /\ reduction' = [reduction EXCEPT ![o] = r]
  /\ UNCHANGED <<terms, newPrice>>
UpdateOrder(o, new) ==
  /\ Request(o, "UPDATE", 0)
  /\ terms[o].kind = "LIMIT"
  /\ new # terms[o].persistence
  /\ terms' = [terms EXCEPT ![o].persistence = new]
  /\ UNCHANGED <<reduction, newPrice>>
ReplaceOrder(o, x, version) ==
  /\ Request(o, "REPLACE", version)
  /\ OrdersLeft
  /\ terms[o].kind \in {"LIMIT", "LIMIT_ON_CLOSE"}
  /\ x # terms[o].price
  /\ newPrice' = [newPrice EXCEPT ![o] = x]
  /\ UNCHANGED <<terms, reduction>>

-----------------------------------------------------------------------------
Strategy ==
  \/ \E t \in Terms, v \in {0, book.version} : Unused # {} /\ PlaceOrder(t, v)
  \/ \E o \in Order :
       \/ \E r \in Reductions : CancelOrder(o, r)
       \/ \E p \in {"LAPSE", "PERSIST", "MARKET_ON_CLOSE"} : UpdateOrder(o, p)
       \/ \E x \in Price, v \in {0, book.version} : ReplaceOrder(o, x, v)
Engine ==
  \/ NextBook \/ CloseMarket \/ UpdateMarket \/ EndMatching
  \/ ExecutePlace \/ ExecuteCancel \/ ExecuteUpdate \/ ExecuteReplace
  \/ FailReplace \/ FailInstruction
  \/ \E o \in Order :
       PassOrder(o) \/ MatchAtSP(o) \/ NoSP(o) \/ Lapse(o) \/ MatchTraded(o) \/ ProcessOrder(o)
Next == Strategy \/ Engine

Spec == Init /\ [][Next]_vars
\* The historical data has another book, and run() goes on to it.
FairSpec == Spec /\ WF_vars(Engine)

-----------------------------------------------------------------------------
(* Properties *)

Package == [type : PackageType, order : Order, age : Nat, version : Nat]
\* The state is well formed; the sizes of an order are whole numbers, and only
\* what was cancelled can be negative (a lay bet that grows at the starting
\* price).
TypeOK ==
  /\ status \in [Order -> {"None", "New"} \cup Awaiting \cup Complete \cup {"EXECUTABLE"}]
  /\ \A o \in Order :
       /\ sim[o].matched \in Nat /\ sim[o].cost \in Nat /\ sim[o].piq \in Nat
       /\ sim[o].lapsed \in Nat /\ sim[o].voided \in Nat /\ sim[o].cancelled \in Int
       /\ terms[o].size \in 0..Size /\ reduction[o] \in 0..Size
       /\ newPrice[o] \in Price \cup {0} /\ trade[o] \in Order
  /\ tstatus \in [Order -> {"LIVE", "PENDING", "COMPLETE"}]
  /\ live \in Seq(Order) /\ todo \in Seq(Order) /\ queue \in Seq(Package)
  /\ phase \in {"packages", "match", "orders"}

\* What was matched, cancelled, lapsed and voided of an order never exceeds its
\* size (Simulated.size_remaining), whatever the order of fills, partial cancels,
\* suspensions and the starting price.
SizeConserved == \A o \in Known : Remaining(o) >= 0

\* An order gives its place in the queue to nobody and jumps no queue: what it is
\* matched beyond what it took when it was placed, or at the starting price, was
\* traded after it was placed, at a price it accepts, and after the volume that
\* was ahead of it (Simulated._piq, RunnerAnalytics).
Flow(o) ==
  Sum([x \in Price |-> book.volume[x] - history[o].base[x]],
      {x \in Price : AsGood(terms[o], x)})
NeverJumpsQueue ==
  \A o \in Known :
    status[o] # "PENDING" =>
      sim[o].matched - history[o].taken <= Most(0, Flow(o) - history[o].ahead)

\* A bet never risks more than was asked for: a back bet its stake, a lay bet
\* price - 1 times its stake, an order on close its liability, up to the rounding
\* of the size matched at the starting price (Simulated._process_sp).
Risk(o) ==
  IF terms[o].side = "BACK" THEN sim[o].matched ELSE sim[o].cost - sim[o].matched
Asked(o) ==
  IF terms[o].side = "BACK" \/ terms[o].kind # "LIMIT" THEN terms[o].size
  ELSE (terms[o].price - 1) * terms[o].size
LiabilityBounded ==
  \A o \in Known : 2 * (Risk(o) - Asked(o)) <= (IF sim[o].reconciled THEN book.sp - 1 ELSE 0)

\* An order that waits for its request has exactly one package pending, of the
\* type it waits for (handler_queue, _check_pending_packages).
Asking == [PLACE |-> "PENDING", CANCEL |-> "CANCELLING", UPDATE |-> "UPDATING",
           REPLACE |-> "REPLACING"]
Pending(o) == {i \in DOMAIN queue : queue[i].order = o}
OnePackage ==
  \A o \in Order :
    /\ Cardinality(Pending(o)) <= 1
    /\ status[o] \in Awaiting => \E i \in Pending(o) : status[o] = Asking[queue[i].type]

\* An executable order with something left is among the live orders, exactly once,
\* so that every book is matched with it (Blotter._live_orders).
LiveWatched ==
  \A o \in Known :
    status[o] = "EXECUTABLE" /\ Remaining(o) > 0 =>
      Cardinality({i \in DOMAIN live : live[i] = o}) = 1

\* No limit order that lapses is left in a suspended market once the book has been
\* processed, even if it was placed, cancelled in part or replaced meanwhile.
LapsedWhenSuspended ==
  phase = "orders" /\ todo = <<>> /\ book.status = "SUSPENDED" /\ ~closed =>
    \A o \in Known :
      status[o] = "EXECUTABLE" /\ terms[o].persistence = "LAPSE" => Remaining(o) = 0

\* Every package is executed in the end: no order waits for ever.
Answered == \A o \in Order : status[o] \in Awaiting ~> status[o] \notin Awaiting \/ raised

\* The orders of a trade that is over leave the live orders, unless the market
\* closes first (Trade.complete, Blotter.complete_order).
Over(t) == \A o \in Order : trade[o] = t => status[o] \in Complete \cup {"None"}
TradeLeaves ==
  \A t \in Order :
    (status[t] # "None" /\ Over(t)) ~>
      \/ closed \/ raised \/ ~Over(t)
      \/ \A i \in DOMAIN live : trade[live[i]] # t

=============================================================================
