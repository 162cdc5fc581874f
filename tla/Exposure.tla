------------------------------ MODULE Exposure ------------------------------
(***************************************************************************)
(* The trading controls: what a strategy may lose on one selection.        *)
(*                                                                         *)
(* The main thread validates each order with the controls of               *)
(* controls/tradingcontrols.py before it is sent.  StrategyExposure adds   *)
(* the order to what Blotter.get_exposures makes of the orders it knows,   *)
(* and what it knows of a bet (the place response, later the records of    *)
(* the order stream) is older than the bet itself, which the exchange goes *)
(* on matching, lapsing and replacing.                                     *)
(*                                                                         *)
(* Amounts are whole numbers; a price is given by its odds, what one unit  *)
(* of stake wins (price - 1).                                              *)
(***************************************************************************)
EXTENDS Integers, FiniteSets, FiniteSetsExt, Prices

CONSTANTS
  Order,             \* order objects
  NoOrder,
  Amounts,           \* sizes (LIMIT) and liabilities the strategy asks for
  Odds,              \* odds the strategy asks for and the exchange matches at
  Types,             \* order types the strategy uses
  Kinds,             \* requests it makes about live orders: CANCEL, REPLACE
  MaxOrderExposure,  \* strategy.max_order_exposure
  MaxSelection,      \* strategy.max_selection_exposure
  MaxTrades,         \* strategy.max_trade_count
  MaxLive,           \* strategy.max_live_trade_count
  MinBet,            \* client.min_bet_size
  MinPayout,         \* client.min_bet_payout
  MinLiability,      \* client.min_bsp_liability
  TornReads,         \* whether a place response may come in during get_exposures
  MaxSuspensions     \* bound on the suspensions of the market

ASSUME OrderAssumption == IsFiniteSet(Order) /\ NoOrder \notin Order
ASSUME AmountAssumption ==
  /\ Amounts \subseteq Nat
  /\ Odds \subseteq Nat \ {0}
  /\ Types \subseteq {"LIMIT", "LIMIT_ON_CLOSE", "MARKET_ON_CLOSE"}
  /\ Kinds \subseteq {"CANCEL", "REPLACE"}
  /\ MaxOrderExposure \in Nat /\ MaxSelection \in Nat /\ MaxTrades \in Nat /\ MaxLive \in Nat
  /\ MinBet \in Nat /\ MinPayout \in Nat /\ MinLiability \in Nat
  /\ TornReads \in BOOLEAN /\ MaxSuspensions \in Nat

VARIABLES
  status,      \* Order.status
  terms,       \* Order.side and Order.order_type
  view,        \* what size_matched, average_price_matched and size_remaining give
  seen,        \* orders that have a current_order of the stream
  blotter,     \* Blotter._orders
  newOdds,     \* Order.update_data["new_price"]
  replacement, \* the order the exchange put in the place of another
  exch,        \* the bets at the exchange, or on their way to it
  market,      \* Market.market_book.status
  suspensions, \* times the market was suspended
  torn         \* an exposure was computed while a place response came in

orderVars == <<status, terms, view, seen, blotter, newOdds>>
exchVars == <<exch, replacement>>
marketVars == <<market, suspensions>>
vars == <<orderVars, exchVars, marketVars, torn>>

-----------------------------------------------------------------------------
(* Orders *)

Status == {"None", "New", "PENDING", "EXECUTABLE", "CANCELLING", "REPLACING",
           "EXECUTION_COMPLETE", "VIOLATION"}
\* An order at the market's starting price has no price of its own.
Terms == {t \in [side : {"BACK", "LAY"}, type : Types, odds : Odds \cup {0}, amount : Amounts] :
            t.type = "MARKET_ON_CLOSE" <=> t.odds = 0}
NoTerms == [side |-> "BACK", type |-> "LIMIT", odds |-> 0, amount |-> 0]
\* Matched stake, what it wins (BACK) or costs (LAY), and what may still be
\* matched: stake of a LIMIT order, liability of an order at the starting price
Position == [matched : Nat, cost : Nat, open : Nat]
Nothing == [matched |-> 0, cost |-> 0, open |-> 0]
Unplaced(t) == [Nothing EXCEPT !.open = t.amount]

Back(o) == terms[o].side = "BACK"
Limit(o) == terms[o].type = "LIMIT"
\* What a lay bet loses when n more of it is matched and the selection wins
Liability(o, n) == IF Limit(o) THEN terms[o].odds * n ELSE n

Init ==
  /\ status = [o \in Order |-> "None"]
  /\ terms = [o \in Order |-> NoTerms]
  /\ view = [o \in Order |-> Nothing]
  /\ seen = {}
  /\ blotter = {}
  /\ newOdds = [o \in Order |-> 0]
  /\ replacement = [o \in Order |-> NoOrder]
  /\ exch = [o \in Order |-> Nothing]
  /\ market = "OPEN"
  /\ suspensions = 0
  /\ torn = FALSE

Unused == {o \in Order : status[o] = "None"}
Fresh == CHOOSE o \in Unused : TRUE
Replacements == {replacement[o] : o \in Order} \ {NoOrder}
\* RunnerContext.trades, a trade being named after its first order, and live_trades
Trades == blotter \ Replacements
LiveTrades == {o \in Trades : status[o] # "EXECUTION_COMPLETE"}

-----------------------------------------------------------------------------
(* Blotter.get_exposures *)

\* The sum of f, counted unit by unit
Units(f) == UNION {{o} \X (1..f[o]) : o \in Order}
Sum(f) == Cardinality(Units(f))

\* calculate_matched_exposure and calculate_unmatched_exposure with the on-close
\* liabilities, when the selection wins: what is matched counts, and a
\* lay bet that is not matched yet is taken to be matched.
WorstOnWin(pos) ==
  Sum([o \in Order |-> IF Back(o) THEN pos[o].cost ELSE 0])
  - Sum([o \in Order |-> IF Back(o) THEN 0
                         ELSE pos[o].cost + Liability(o, pos[o].open)])

\* Mutant: what is matched is taken for the whole of a back bet.
WorstOnLose_MatchedOnly(pos) ==
  Sum([o \in Order |-> IF Back(o) THEN 0 ELSE pos[o].matched])
  - Sum([o \in Order |-> IF Back(o) THEN pos[o].matched ELSE 0])
\* The same when the selection loses
WorstOnLose(pos) ==
  Sum([o \in Order |-> IF Back(o) THEN 0 ELSE pos[o].matched])
  - Sum([o \in Order |-> IF Back(o) THEN pos[o].matched + pos[o].open ELSE 0])

\* What get_exposures reads of the orders; an order at the starting price counts
\* with its liability, whatever has become of it.
Read(exclusion) ==
  [o \in Order |->
    IF o \notin blotter \/ o = exclusion \/ status[o] = "VIOLATION" THEN Nothing
    ELSE IF Limit(o) THEN view[o] ELSE Unplaced(terms[o])]

-----------------------------------------------------------------------------
(* The controls *)

\* OrderValidation
ValidOrder(t) ==
  /\ t.amount > 0
  /\ t.type # "MARKET_ON_CLOSE" => OddsOnLadder(t.odds)
  /\ CASE t.type = "LIMIT" -> t.amount >= MinBet \/ (t.odds + 1) * t.amount >= MinPayout
       [] OTHER -> t.amount >= IF t.side = "BACK" THEN MinBet ELSE MinLiability

\* BaseStrategy.validate_order, the conditions that do not depend on the time
ValidateOrder == Cardinality(Trades) < MaxTrades /\ Cardinality(LiveTrades) < MaxLive

\* What the order can lose
OrderExposure(t) ==
  IF t.type = "LIMIT" /\ t.side = "LAY" THEN t.odds * t.amount ELSE t.amount

\* Mutant: the order is looked at without those already there.
WithinExposure_Alone(t, pos) ==
  /\ OrderExposure(t) <= MaxOrderExposure
  /\ OrderExposure(t) <= MaxSelection
\* StrategyExposure, given what it reads of the other orders
WithinExposure(t, pos) ==
  /\ OrderExposure(t) <= MaxOrderExposure
  /\ OrderExposure(t)
       <= MaxSelection + IF t.side = "BACK" THEN WorstOnLose(pos) ELSE WorstOnWin(pos)

\* OrderValidation, MarketValidation and StrategyExposure for a new order
MayPlace(t, pos) ==
  ValidOrder(t) /\ market = "OPEN" /\ ValidateOrder /\ WithinExposure(t, pos)

-----------------------------------------------------------------------------
(* The main thread: Transaction.place_order, cancel_order, replace_order *)

\* Blotter, RunnerContext and order type after Transaction.place_order
Placed(o, t) ==
  /\ terms' = [terms EXCEPT ![o] = t]
  /\ blotter' = blotter \cup {o}
  /\ exch' = [exch EXCEPT ![o] = Unplaced(t)]
  /\ UNCHANGED <<seen, newOdds, replacement, marketVars>>

\* Place an order; the positions of the others stay as they are while they are read.
PlaceOrder(o, t) ==
  /\ Unused # {} /\ o = Fresh
  /\ MayPlace(t, Read(NoOrder))
  /\ Placed(o, t)
  /\ status' = [status EXCEPT ![o] = "PENDING"]
  /\ view' = [view EXCEPT ![o] = Unplaced(t)]
  /\ UNCHANGED torn

\* Mutant: what remains is taken from the size twice.
Response_Twice(r) == [exch[r] EXCEPT !.open = terms[r].amount - 2 * exch[r].matched]
\* The place response of order r: the size that remains is what it was placed
\* with less what is matched.
Response(r) == [exch[r] EXCEPT !.open = terms[r].amount - exch[r].matched]

\* Place an order while a pool thread stores the place response of r:
\* get_exposures reads size_matched before it and size_remaining after it.
PlaceOrderTorn(o, t, r) ==
  /\ TornReads
  /\ Unused # {} /\ o = Fresh
  /\ status[r] = "PENDING" /\ r \notin seen /\ Limit(r)
  /\ MayPlace(t, [Read(NoOrder) EXCEPT ![r] = [Nothing EXCEPT !.open = Response(r).open]])
  /\ Placed(o, t)
  /\ status' = [status EXCEPT ![o] = "PENDING", ![r] = "EXECUTABLE"]
  /\ view' = [view EXCEPT ![o] = Unplaced(t), ![r] = Response(r)]
  /\ torn' = TRUE

\* A control fails for a new order, which stays out of the blotter.
RejectPlace(o, t) ==
  /\ Unused # {} /\ o = Fresh
  /\ ~MayPlace(t, Read(NoOrder))
  /\ status' = [status EXCEPT ![o] = "VIOLATION"]
  /\ UNCHANGED <<terms, view, seen, blotter, newOdds, exchVars, marketVars, torn>>

\* The controls for a request about o: they see the order as it is, a replace
\* with its old price, and leave what is known of it out of the exposure.
MayRequest(o, kind) ==
  /\ ValidOrder(terms[o]) /\ market = "OPEN"
  /\ kind = "REPLACE" => WithinExposure(terms[o], Read(o))

\* The requests BetfairOrder.cancel and replace allow.  A LIMIT_ON_CLOSE order
\* may be replaced too, but its replacement is always made a LIMIT order of the
\* size in the report, which has none: that is left out.
Requestable(o, kind) ==
  /\ kind \in Kinds
  /\ o \in blotter /\ status[o] = "EXECUTABLE"
  /\ Limit(o)

CancelOrder(o) ==
  /\ Requestable(o, "CANCEL")
  /\ MayRequest(o, "CANCEL")
  /\ status' = [status EXCEPT ![o] = "CANCELLING"]
  /\ UNCHANGED <<terms, view, seen, blotter, newOdds, exchVars, marketVars, torn>>

ReplaceOrder(o, odds) ==
  /\ Requestable(o, "REPLACE")
  /\ odds # terms[o].odds
  /\ MayRequest(o, "REPLACE")
  /\ status' = [status EXCEPT ![o] = "REPLACING"]
  /\ newOdds' = [newOdds EXCEPT ![o] = odds]
  /\ UNCHANGED <<terms, view, seen, blotter, exchVars, marketVars, torn>>

\* A control fails for an order that is at the exchange or on its way to it: the
\* controls come before the guards of cancel and replace, and
\* BaseControl._on_error marks the order VIOLATION whatever its type and
\* whatever it waits for (MarketValidation does so whenever the market is not
\* open).  The walk over its package passes it over from then on, so that a reply
\* it waited for is not processed (OrderPackage.orders).
RejectRequest(o) ==
  /\ o \in blotter
  /\ status[o] \in {"PENDING", "EXECUTABLE", "CANCELLING", "REPLACING"}
  /\ \E kind \in Kinds : ~MayRequest(o, kind)
  /\ status' = [status EXCEPT ![o] = "VIOLATION"]
  /\ UNCHANGED <<terms, view, seen, blotter, newOdds, exchVars, marketVars, torn>>

\* Mutant: the size that remains is read as what the order was placed with,
\* less what was cancelled, and the matched size is not updated.
Recorded_Remaining(o) == [view[o] EXCEPT !.open = exch[o].open]
\* What a record of the order stream says of o
Recorded(o) == exch[o]

\* process_current_order: a record of the order stream
StreamRecord(o) ==
  /\ o \in blotter
  /\ view[o] # exch[o] \/ (exch[o].open = 0 /\ status[o] = "EXECUTABLE")
  /\ view' = [view EXCEPT ![o] = Recorded(o)]
  /\ seen' = seen \cup {o}
  /\ status' = IF status[o] = "EXECUTABLE" /\ exch[o].open = 0
               THEN [status EXCEPT ![o] = "EXECUTION_COMPLETE"] ELSE status
  /\ UNCHANGED <<terms, blotter, newOdds, exchVars, marketVars, torn>>

-----------------------------------------------------------------------------
(* Pool threads: the replies of the exchange *)

\* execute_place, SUCCESS: the place response counts until the stream has a record.
PlaceReply(o) ==
  /\ status[o] = "PENDING"
  /\ status' = [status EXCEPT ![o] = "EXECUTABLE"]
  /\ view' = IF o \in seen THEN view ELSE [view EXCEPT ![o] = Response(o)]
  /\ UNCHANGED <<terms, seen, blotter, newOdds, exchVars, marketVars, torn>>

\* execute_place, FAILURE: the bet was never made.
PlaceFailed(o) ==
  /\ status[o] = "PENDING" /\ o \notin seen
  /\ exch[o] = Unplaced(terms[o])
  /\ exch' = [exch EXCEPT ![o] = Nothing]
  /\ status' = [status EXCEPT ![o] = "EXECUTION_COMPLETE"]
  /\ UNCHANGED <<terms, view, seen, blotter, newOdds, replacement, marketVars, torn>>

\* execute_cancel: the exchange has taken back n, or refused (n = 0)
CancelReply(o, n) ==
  /\ status[o] = "CANCELLING"
  /\ exch' = [exch EXCEPT ![o].open = @ - n]
  /\ status' = [status EXCEPT ![o] = IF n > 0 /\ view[o].open \in {0, n}
                                     THEN "EXECUTION_COMPLETE" ELSE "EXECUTABLE"]
  /\ UNCHANGED <<terms, view, seen, blotter, newOdds, replacement, marketVars, torn>>

\* The exchange replaces the bet of o by one at the new price for what is open;
\* n stands for it, and becomes an order with the reply.
ExchangeReplace(o, n) ==
  /\ status[o] = "REPLACING" /\ replacement[o] = NoOrder /\ exch[o].open > 0
  /\ Unused # {} /\ n = Fresh
  /\ LET t == [terms[o] EXCEPT !.odds = newOdds[o], !.amount = exch[o].open] IN
     /\ terms' = [terms EXCEPT ![n] = t]
     /\ exch' = [exch EXCEPT ![o].open = 0, ![n] = Unplaced(t)]
  /\ replacement' = [replacement EXCEPT ![o] = n]
  /\ status' = [status EXCEPT ![n] = "New"]
  /\ UNCHANGED <<view, seen, blotter, newOdds, marketVars, torn>>

\* execute_replace: the replacement joins the blotter with its place response.
ReplaceReply(o) ==
  LET n == replacement[o] IN
  /\ status[o] = "REPLACING" /\ n # NoOrder
  /\ status' = [status EXCEPT ![o] = "EXECUTION_COMPLETE", ![n] = "EXECUTABLE"]
  /\ blotter' = blotter \cup {n}
  /\ view' = [view EXCEPT ![n] = Response(n)]
  /\ UNCHANGED <<terms, seen, newOdds, exchVars, marketVars, torn>>

\* execute_replace, both parts refused
ReplaceRefused(o) ==
  /\ status[o] = "REPLACING" /\ replacement[o] = NoOrder
  /\ status' = [status EXCEPT ![o] = "EXECUTABLE"]
  /\ UNCHANGED <<terms, view, seen, blotter, newOdds, exchVars, marketVars, torn>>

\* execute_replace, the bet is cancelled and the new one refused
ReplaceHalf(o) ==
  /\ status[o] = "REPLACING" /\ replacement[o] = NoOrder /\ exch[o].open > 0
  /\ exch' = [exch EXCEPT ![o].open = 0]
  /\ status' = [status EXCEPT ![o] = "EXECUTION_COMPLETE"]
  /\ UNCHANGED <<terms, view, seen, blotter, newOdds, replacement, marketVars, torn>>

-----------------------------------------------------------------------------
(* The exchange *)

\* n of a LIMIT order is matched at odds p, its own or better ones.
Match(o, n, p) ==
  /\ Limit(o)
  /\ IF Back(o) THEN p >= terms[o].odds ELSE p <= terms[o].odds
  /\ exch' = [exch EXCEPT ![o] = [matched |-> @.matched + n, cost |-> @.cost + p * n,
                                  open |-> @.open - n]]
  /\ UNCHANGED <<orderVars, replacement, marketVars, torn>>

\* An order for the starting price is matched at odds p: a liability is the
\* stake of a back bet and what a lay bet costs.
MatchAtSP(o, p) ==
  /\ ~Limit(o) /\ exch[o].open > 0
  /\ terms[o].type = "LIMIT_ON_CLOSE" =>
       IF Back(o) THEN p >= terms[o].odds ELSE p <= terms[o].odds
  /\ exch' = [exch EXCEPT ![o] =
       [matched |-> @.matched + IF Back(o) THEN @.open ELSE @.open \div p,
        cost |-> @.cost + IF Back(o) THEN p * @.open ELSE @.open,
        open |-> 0]]
  /\ UNCHANGED <<orderVars, replacement, marketVars, torn>>

\* What is open of a bet lapses.
Lapse(o) ==
  /\ exch[o].open > 0
  /\ exch' = [exch EXCEPT ![o].open = 0]
  /\ UNCHANGED <<orderVars, replacement, marketVars, torn>>

Suspend ==
  /\ market = "OPEN" /\ suspensions < MaxSuspensions
  /\ market' = "SUSPENDED"
  /\ suspensions' = suspensions + 1
  /\ UNCHANGED <<orderVars, exchVars, torn>>

Reopen ==
  /\ market = "SUSPENDED"
  /\ market' = "OPEN"
  /\ UNCHANGED <<orderVars, exchVars, suspensions, torn>>

MainThread ==
  \/ \E o \in Order, t \in Terms :
       PlaceOrder(o, t) \/ RejectPlace(o, t) \/ (\E r \in Order : PlaceOrderTorn(o, t, r))
  \/ \E o \in Order : CancelOrder(o) \/ RejectRequest(o) \/ StreamRecord(o)
  \/ \E o \in Order, odds \in Odds : ReplaceOrder(o, odds)

PoolThreads ==
  \/ \E o \in Order : PlaceReply(o) \/ PlaceFailed(o) \/ ReplaceReply(o)
                    \/ ReplaceRefused(o) \/ ReplaceHalf(o)
  \/ \E o \in Order : \E n \in 0..exch[o].open : CancelReply(o, n)
  \/ \E o \in Order, n \in Order : ExchangeReplace(o, n)

Exchange ==
  \/ \E o \in Order, p \in Odds : \E n \in 1..exch[o].open : Match(o, n, p)
  \/ \E o \in Order, p \in Odds : MatchAtSP(o, p)
  \/ \E o \in Order : Lapse(o)
  \/ Suspend \/ Reopen

Next == MainThread \/ PoolThreads \/ Exchange

Spec == Init /\ [][Next]_vars

-----------------------------------------------------------------------------
(* Properties *)

TypeOK ==
  /\ status \in [Order -> Status]
  /\ terms \in [Order -> [side : {"BACK", "LAY"}, type : Types \cup {"LIMIT"},
                         odds : Odds \cup {0}, amount : Nat]]
  /\ view \in [Order -> Position]
  /\ seen \subseteq Order
  /\ blotter \subseteq Order
  /\ newOdds \in [Order -> Odds \cup {0}]
  /\ replacement \in [Order -> Order \cup {NoOrder}]
  /\ exch \in [Order -> Position]
  /\ market \in {"OPEN", "SUSPENDED"}
  /\ suspensions \in 0..MaxSuspensions
  /\ torn \in BOOLEAN

\* What the strategy may lose on the selection with the bets it has, whichever
\* of them are matched, is within max_selection_exposure.
SelectionLimit ==
  /\ WorstOnWin(exch) >= -MaxSelection
  /\ WorstOnLose(exch) >= -MaxSelection

\* The three ways in which get_exposures loses sight of a bet: a replace, a
\* control that marks a live order VIOLATION, a place response that comes in
\* while it reads
Blind ==
  \/ torn
  \/ Replacements # {}
  \/ \E o \in blotter : status[o] = "VIOLATION"

\* Otherwise the limit is kept at every moment, though the controls see an old
\* state of the bets and the exchange goes on matching and lapsing them
\* (StrategyExposure._validate, Blotter.get_exposures).
LimitKept == Blind \/ SelectionLimit

\* And what get_exposures answers is never better than what the bets are
\* worth at the exchange.
ReadIsCautious ==
  Blind \/ /\ WorstOnWin(Read(NoOrder)) <= WorstOnWin(exch)
           /\ WorstOnLose(Read(NoOrder)) <= WorstOnLose(exch)

\* The profit if the selection wins, and if it loses, once the orders of F are
\* matched at their own price and what is open of the others lapses
ProfitOnWin(pos, F) ==
  Sum([o \in Order |-> IF ~Back(o) THEN 0
                       ELSE pos[o].cost + IF o \in F THEN terms[o].odds * pos[o].open ELSE 0])
  - Sum([o \in Order |-> IF Back(o) THEN 0
                         ELSE pos[o].cost + IF o \in F THEN Liability(o, pos[o].open) ELSE 0])
ProfitOnLose(pos, F) ==
  Sum([o \in Order |-> IF Back(o) THEN 0
                       ELSE pos[o].matched + IF o \in F /\ Limit(o) THEN pos[o].open ELSE 0])
  - Sum([o \in Order |-> IF ~Back(o) THEN 0
                         ELSE pos[o].matched + IF o \in F THEN pos[o].open ELSE 0])

\* get_exposures computes the worst case over everything that may still be
\* matched ("worst_possible_profit_on_win" and "_on_lose").
ExposureIsWorstCase ==
  LET pos == Read(NoOrder) IN
  /\ WorstOnWin(pos) = Min({ProfitOnWin(pos, F) : F \in SUBSET Order})
  /\ WorstOnLose(pos) = Min({ProfitOnLose(pos, F) : F \in SUBSET Order})

=============================================================================
