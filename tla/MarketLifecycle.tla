--------------------------- MODULE MarketLifecycle ---------------------------
(***************************************************************************)
(* The life of the markets of a live flumine: added with their first book, *)
(* closed, reopened, cleared and removed.  Three threads take part:        *)
(*   - the market stream puts books on the queue of events;                *)
(*   - the main thread (Flumine.run) handles one event after the other;    *)
(*   - a BackgroundWorker runs poll_market_closure, asks the exchange for  *)
(*     what was settled and puts that on the same queue, while the main    *)
(*     thread may reopen or remove the market it is working on.            *)
(* A step of the main thread is the handling of one event, a step of the   *)
(* worker one request with the put that follows, or one assignment.        *)
(***************************************************************************)
EXTENDS Integers, Sequences, FiniteSets, FiniteSetsExt, SequencesExt

CONSTANTS
  Market,      \* market ids
  MaxObjects,  \* bound on the Market objects made for each market id
  MaxQueue,    \* bound on the events waiting when the stream adds one
  MaxReopens,  \* bound on the times the exchange reopens each market
  MaxSnaps,    \* bound on the closed books sent again for each market
  MaxBets,     \* bound on the bets placed in each market
  MaxFaults,   \* bound on the requests that fail
  PageSize     \* records in a page of cleared orders

ASSUME MarketAssumption == IsFiniteSet(Market) /\ MaxObjects \in [Market -> Nat \ {0}]
ASSUME BoundAssumption ==
  /\ MaxReopens \in [Market -> Nat] /\ MaxSnaps \in [Market -> Nat]
  /\ MaxBets \in [Market -> Nat]
  /\ MaxQueue \in Nat \ {0} /\ MaxFaults \in Nat /\ PageSize \in Nat \ {0}

VARIABLES
  exchange,    \* the market at the exchange: its status, its bets
  queue,       \* BaseFlumine.handler_queue
  current,     \* Markets._markets: which object a market id has, 0 for none
  object,      \* the Market objects ever made
  working,     \* the markets poll_market_closure has still to visit
  at,          \* where poll_market_closure is
  from,        \* from_record of _get_cleared_orders
  faults       \* requests that have failed so far

mainVars == <<current, object>>
workerVars == <<working, at, from>>
vars == <<exchange, queue, mainVars, workerVars, faults>>

-----------------------------------------------------------------------------
Object == UNION {{m} \X (1..MaxObjects[m]) : m \in Market}
Bets == UNION {1..MaxBets[m] : m \in Market}
Book(m, status) == [type |-> "MARKET_BOOK", market |-> m, status |-> status, records |-> {}]
Event(type, m, records) ==
  [type |-> type, market |-> m, status |-> "CLOSED", records |-> records]

\* Market.__init__; made tells the objects there are from those still to come.
NewMarket ==
  [closed |-> FALSE, ordersCleared |-> FALSE, marketCleared |-> FALSE, expired |-> FALSE,
   made |-> FALSE, bets |-> {}, cleared |-> {}]

Init ==
  /\ exchange = [m \in Market |-> [status |-> "OPEN", unseen |-> TRUE, reopens |-> 0,
                                   snaps |-> 0, placed |-> 0]]
  /\ queue = <<>>
  /\ current = [m \in Market |-> 0]
  /\ object = [x \in Object |-> NewMarket]
  /\ working = <<>> /\ at = "idle" /\ from = 0
  /\ faults = 0

-----------------------------------------------------------------------------
(* The exchange and the market stream *)

\* Closing settles the bets; a closed market may be opened again.
ChangeStatus(m) ==
  /\ exchange[m].status = "OPEN" \/ exchange[m].reopens < MaxReopens[m]
  /\ exchange' = [exchange EXCEPT
       ![m].status = IF @ = "OPEN" THEN "CLOSED" ELSE "OPEN",
       ![m].reopens = IF exchange[m].status = "CLOSED" THEN @ + 1 ELSE @,
       ![m].unseen = TRUE]
  /\ UNCHANGED <<queue, mainVars, workerVars, faults>>
\* What list_cleared_orders finds
Settled(m) == IF exchange[m].status = "CLOSED" THEN exchange[m].placed ELSE 0

\* A book of an open market, the book that shows it closed, or that book again
Publish(m) ==
  /\ Len(queue) < MaxQueue
  /\ \/ exchange[m].status = "OPEN" \/ exchange[m].unseen
     \/ exchange[m].snaps < MaxSnaps[m]
  /\ exchange' = [exchange EXCEPT
       ![m].unseen = FALSE,
       ![m].snaps = IF exchange[m].status = "OPEN" \/ exchange[m].unseen THEN @ ELSE @ + 1]
  /\ queue' = Append(queue, Book(m, exchange[m].status))
  /\ UNCHANGED <<mainVars, workerVars, faults>>

-----------------------------------------------------------------------------
(* Flumine.run *)

Handling(type) == queue # <<>> /\ Head(queue).type = type
It(m) == object[<<m, current[m]>>]
\* The object made next for a market id; older ones have been removed.
Newest(m) == Max({0} \cup {g \in 1..MaxObjects[m] : object[<<m, g>>].made})

\* Mutant: a market that is closed stays as it is.
Opened_Kept(x) == x
\* Market.open_market, if the market is closed
Opened(x) ==
  IF x.closed
  THEN [x EXCEPT !.closed = FALSE, !.ordersCleared = FALSE, !.marketCleared = FALSE]
  ELSE x

\* BaseFlumine._process_market_books.  A strategy may place a bet when it is
\* called with the book of an open market; the exchange takes it if the market
\* is still open.
ProcessMarketBook ==
  LET m == Head(queue).market
      g == IF current[m] = 0 THEN Newest(m) + 1 ELSE current[m]
      x == IF current[m] = 0 THEN [NewMarket EXCEPT !.made = TRUE] ELSE Opened(It(m))
      b == exchange[m].placed + 1 IN
  /\ Handling("MARKET_BOOK")
  /\ current' = [current EXCEPT ![m] = g]
  /\ \/ /\ Head(queue).status = "CLOSED"
        /\ queue' = Append(Tail(queue), Event("CLOSE_MARKET", m, {}))
        /\ object' = [object EXCEPT ![<<m, g>>] = x]
        /\ UNCHANGED exchange
     \/ /\ Head(queue).status = "OPEN"
        /\ queue' = Tail(queue)
        /\ \/ object' = [object EXCEPT ![<<m, g>>] = x] /\ UNCHANGED exchange
           \/ /\ exchange[m].status = "OPEN" /\ b <= MaxBets[m]
              /\ exchange' = [exchange EXCEPT ![m].placed = b]
              /\ object' = [object EXCEPT ![<<m, g>>] = [x EXCEPT !.bets = @ \cup {b}]]
  /\ UNCHANGED <<workerVars, faults>>

\* Market.close_market, if the market is not closed
Closed(x) == IF x.closed THEN x ELSE [x EXCEPT !.closed = TRUE, !.expired = FALSE]

\* BaseFlumine._process_close_market: the market is closed, and those closed for
\* more than 3600 seconds are removed.
ProcessCloseMarket ==
  LET m == Head(queue).market
      closing == [object EXCEPT ![<<m, current[m]>>] = Closed(@)]
      Old(n) == /\ current[n] # 0
                /\ closing[<<n, current[n]>>].closed /\ closing[<<n, current[n]>>].expired IN
  /\ Handling("CLOSE_MARKET")
  /\ queue' = Tail(queue)
  /\ IF current[m] = 0
     THEN UNCHANGED mainVars
     ELSE /\ object' = closing
          /\ current' = [n \in Market |-> IF Old(n) THEN 0 ELSE current[n]]
  /\ UNCHANGED <<exchange, workerVars, faults>>

\* Mutant: a record is taken whether its order is in the blotter or not.
InBlotter_Any(x, records) == records
\* The records of orders in the blotter
InBlotter(x, records) == x.bets \cap records
\* BaseFlumine._process_cleared_orders, Blotter.process_cleared_orders
ProcessClearedOrders ==
  LET m == Head(queue).market IN
  /\ Handling("CLEARED_ORDERS")
  /\ queue' = Tail(queue)
  /\ object' = IF current[m] = 0 THEN object
               ELSE [object EXCEPT ![<<m, current[m]>>].cleared =
                       @ \cup InBlotter(It(m), Head(queue).records)]
  /\ UNCHANGED <<exchange, current, workerVars, faults>>

\* BaseFlumine._process_cleared_markets only writes to the log.
ProcessClearedMarkets ==
  /\ Handling("CLEARED_MARKETS")
  /\ queue' = Tail(queue)
  /\ UNCHANGED <<exchange, mainVars, workerVars, faults>>

\* A market has been closed for 3600 seconds (bound: another object can be made).
Expire(m) ==
  /\ current[m] \in 1..(MaxObjects[m] - 1)
  /\ It(m).closed /\ ~It(m).expired
  /\ object' = [object EXCEPT ![<<m, current[m]>>].expired = TRUE]
  /\ UNCHANGED <<exchange, queue, current, workerVars, faults>>

-----------------------------------------------------------------------------
(* poll_market_closure *)

Uncleared(x) == object[x].closed /\ (~object[x].ordersCleared \/ ~object[x].marketCleared)
Poll ==
  LET found == {m \in Market : current[m] # 0 /\ Uncleared(<<m, current[m]>>)} IN
  /\ at = "idle"
  /\ found # {}
  /\ working' = SetToSeq({<<m, current[m]>> : m \in found})
  /\ at' = "orders"
  /\ from' = 0
  /\ UNCHANGED <<exchange, queue, mainVars, faults>>

Working == Head(working)
Goto(step) == at' = step /\ UNCHANGED working
NextMarket ==
  /\ working' = Tail(working)
  /\ at' = IF Len(working) = 1 THEN "idle" ELSE "orders"

OrdersToDo(x) == ~object[x].ordersCleared
SkipOrders ==
  /\ at = "orders" /\ from = 0 /\ ~OrdersToDo(Working)
  /\ Goto("market")
  /\ UNCHANGED <<exchange, queue, mainVars, from, faults>>

\* Mutant: the first page is all there is.
LastPage_First(m) == TRUE
LastPage(m) == from + PageSize >= Settled(m)
\* _get_cleared_orders: a page of the settled orders is put on the queue.
GetClearedOrders ==
  LET m == Working[1] IN
  /\ at = "orders" /\ (from # 0 \/ OrdersToDo(Working))
  /\ queue' = Append(queue, Event("CLEARED_ORDERS", m,
                                  {b \in Bets : from < b /\ b <= from + PageSize
                                                /\ b <= Settled(m)}))
  /\ IF LastPage(m)
     THEN Goto("ordersCleared") /\ from' = 0
     ELSE from' = from + PageSize /\ UNCHANGED <<working, at>>
  /\ UNCHANGED <<exchange, mainVars, faults>>

\* StatusCodeError or BetfairError: the market is left for the next poll.
FailOrders ==
  /\ at = "orders" /\ (from # 0 \/ OrdersToDo(Working))
  /\ faults < MaxFaults /\ faults' = faults + 1
  /\ from' = 0
  /\ Goto("market")
  /\ UNCHANGED <<exchange, queue, mainVars>>

\* market.orders_cleared = True
SetOrdersCleared ==
  /\ at = "ordersCleared"
  /\ object' = [object EXCEPT ![Working].ordersCleared = TRUE]
  /\ Goto("market")
  /\ UNCHANGED <<exchange, queue, current, from, faults>>

\* _get_cleared_market: nothing is put, and the market left for the next poll,
\* when the exchange has nothing to show.
GetClearedMarket ==
  LET m == Working[1] IN
  /\ at = "market" /\ ~object[Working].marketCleared
  /\ Settled(m) > 0
  /\ queue' = Append(queue, Event("CLEARED_MARKETS", m, {}))
  /\ Goto("marketCleared")
  /\ UNCHANGED <<exchange, mainVars, from, faults>>

\* Already cleared, nothing to show, or an error
PassMarket ==
  /\ at = "market"
  /\ \/ (object[Working].marketCleared \/ Settled(Working[1]) = 0) /\ UNCHANGED faults
     \/ /\ ~object[Working].marketCleared
        /\ faults < MaxFaults /\ faults' = faults + 1
  /\ NextMarket
  /\ UNCHANGED <<exchange, queue, mainVars, from>>

\* market.market_cleared = True
SetMarketCleared ==
  /\ at = "marketCleared"
  /\ object' = [object EXCEPT ![Working].marketCleared = TRUE]
  /\ NextMarket
  /\ UNCHANGED <<exchange, queue, current, from, faults>>

-----------------------------------------------------------------------------
Exchange == \E m \in Market : ChangeStatus(m) \/ Expire(m)
Stream(m) == Publish(m)
Main == ProcessMarketBook \/ ProcessCloseMarket \/ ProcessClearedOrders \/ ProcessClearedMarkets
Worker ==
  \/ Poll \/ SkipOrders \/ GetClearedOrders \/ FailOrders \/ SetOrdersCleared
  \/ GetClearedMarket \/ PassMarket \/ SetMarketCleared
Next == Exchange \/ (\E m \in Market : Stream(m)) \/ Main \/ Worker

Spec == Init /\ [][Next]_vars
\* The main thread takes the next event, the worker runs every interval, and the
\* stream brings the books of every market.
FairSpec ==
  /\ Spec
  /\ WF_vars(Main) /\ WF_vars(Worker)
  /\ \A m \in Market : SF_vars(Stream(m))

-----------------------------------------------------------------------------
(* Properties *)

\* The state is well formed: a market id has the newest of its objects or none,
\* cleared orders are orders of the blotter, and the worker works on objects
\* that were markets once.
TypeOK ==
  /\ \A m \in Market : current[m] \in {0, Newest(m)}
  /\ \A x \in Object :
       /\ object[x].bets \subseteq Bets /\ object[x].cleared \subseteq object[x].bets
       /\ object[x].closed => object[x].made
  /\ \A i \in DOMAIN working : object[working[i]].made
  /\ at \in {"idle", "orders", "ordersCleared", "market", "marketCleared"}
  /\ (at = "idle") = (working = <<>>)
  /\ from # 0 => at = "orders"

\* Once orders_cleared is set, and the market is no longer polled for its orders,
\* the cleared order of each of its bets is in the blotter or waiting on the queue;
\* unless the exchange has reopened the market, when the bets of before may have been
\* asked for while nothing was settled (poll_market_closure, _get_cleared_orders).
NothingLost ==
  \A m \in Market :
    current[m] # 0 /\ exchange[m].reopens = 0 /\ It(m).ordersCleared =>
      \A b \in It(m).bets :
        \/ b \in It(m).cleared
        \/ \E i \in DOMAIN queue : /\ queue[i].type = "CLEARED_ORDERS"
                                   /\ queue[i].market = m /\ b \in queue[i].records

\* The market object follows the exchange: once the exchange has closed a market
\* for good it is closed, or removed; while the exchange has it open the object
\* is opened again and again (Market.closed, handler_queue order of books and
\* CloseMarketEvents).
FollowsExchange ==
  \A m \in Market :
    /\ <>[](exchange[m].status = "CLOSED") => <>[](current[m] = 0 \/ It(m).closed)
    /\ <>[](exchange[m].status = "OPEN") => []<>(current[m] # 0 /\ ~It(m).closed)

\* The bets of a market that closes are all cleared, unless the market is removed
\* first or was reopened by the exchange: failing requests, pages and repeated
\* closures notwithstanding (poll_market_closure, process_cleared_orders).
BetsCleared ==
  \A m \in Market :
    (current[m] # 0 /\ It(m).closed) ~>
      (current[m] = 0 \/ It(m).bets = It(m).cleared \/ exchange[m].reopens > 0)
=============================================================================
