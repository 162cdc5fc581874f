--------------------------- MODULE OrderExecution ---------------------------
(***************************************************************************)
(* Live execution of the orders one strategy places on one runner.         *)
(*                                                                         *)
(* Three parties share the Order and Trade objects without a lock:         *)
(*   - the main thread (Flumine.run) takes snapshots of the order stream   *)
(*     from handler_queue, updates the orders from them (order/process.py) *)
(*     and then calls the strategy, which places, cancels, updates and     *)
(*     replaces orders through a Transaction;                              *)
(*   - one pool thread per OrderPackage calls the exchange and applies the *)
(*     instruction reports (execution/betfairexecution.py);                *)
(*   - the exchange matches, lapses, cancels and replaces bets.            *)
(* A step of a pool thread is what it does between two of its reads or     *)
(* writes of an order or a trade; processing one record of a snapshot is   *)
(* one step of the main thread.                                            *)
(***************************************************************************)
EXTENDS Naturals, Sequences, FiniteSets, Functions, Selection

CONSTANTS
  Order,            \* order objects (and customerOrderRefs)
  Trade,            \* trade objects
  Package,          \* order packages that can be in flight at once (bound)
  NoOrder, NoTrade, \* "not an order", "not a trade"
  Size,             \* the stake of an order
  MaxBets,          \* bound on the bets the exchange creates
  MaxBatch,         \* bound on the orders of one transaction
  MaxRequests,      \* bound on the cancels, updates and replaces asked for, but for
                    \* one more that is rejected
  MaxEvents,        \* bound on the snapshots in handler_queue
  MaxRestarts,      \* bound on process restarts
  MaxRetries,       \* OrderPackage._max_retries (3 in the code)
  MaxLiveTrades,    \* strategy.max_live_trade_count
  MultiOrderTrades, \* strategy.multi_order_trades
  AsyncPlace,       \* config.async_place_orders
  Kinds,            \* requests the strategy makes after placing
  Reductions,       \* size_reduction values it cancels with, 0 for None
  Faults            \* what may go wrong, see FaultKind

FaultKind ==
  { "refused",      \* BetfairError, the request did not reach the exchange
    "lost_reply",   \* BetfairError, the request was processed
    "broken",       \* any other exception out of the API call
    "failure",      \* FAILURE report although the request was valid
    "timeout",      \* TIMEOUT report, the outcome is not known
    "unreported",   \* a cancel instruction without a report
    "control" }     \* a trading or client control rejects the request

ASSUME OrderAssumption == NoOrder \notin Order
ASSUME TradeAssumption == NoTrade \notin Trade
ASSUME BoundAssumption ==
  /\ Size \in Nat \ {0}
  /\ MaxBets \in Nat /\ MaxBatch \in Nat /\ MaxRequests \in Nat
  /\ MaxEvents \in Nat /\ MaxRestarts \in Nat /\ MaxRetries \in Nat
  /\ MaxLiveTrades \in Nat
ASSUME StrategyAssumption ==
  /\ MultiOrderTrades \in BOOLEAN /\ AsyncPlace \in BOOLEAN
  /\ Kinds \subseteq {"CANCEL", "UPDATE", "REPLACE"}
  /\ Reductions \subseteq 0..Size
  /\ Faults \subseteq FaultKind

VARIABLES
  status,     \* Order.status
  trade,      \* Order.trade
  betId,      \* Order.bet_id, 0 for None
  remaining,  \* Order.size_remaining
  seen,       \* orders whose responses.current_order came from the stream
  reduction,  \* Order.update_data["size_reduction"], 0 when absent or None
  newPrice,   \* orders whose update_data holds "new_price"
  blotter,    \* Blotter._orders
  tstatus,    \* Trade.status
  liveTrades, \* RunnerContext.live_trades
  pending,    \* Transaction._pending_place, _cancel, _update, _replace
  executing,  \* Transaction.execute is submitting its packages
  pkg,        \* the packages and the pool threads that execute them
  queue,      \* snapshots in handler_queue
  current,    \* the records of the snapshot the main thread is processing
  exch,       \* the exchange: exch[b] is bet b
  gaveUp,     \* orders whose request was given up after a fault
  requests,   \* cancels, updates and replaces asked for so far
  restarts    \* process restarts so far

orderVars == <<status, trade, betId, remaining, seen, reduction, newPrice, blotter>>
tradeVars == <<tstatus, liveTrades>>
mainVars  == <<pending, executing, queue, current>>
boundVars == <<requests, restarts>>
vars == <<orderVars, tradeVars, mainVars, pkg, exch, gaveUp, boundVars>>

-----------------------------------------------------------------------------
OrderStatus == { "None", "New", "PENDING", "CANCELLING", "UPDATING", "REPLACING",
                 "EXECUTABLE", "EXECUTION_COMPLETE", "VIOLATION" }
TradeStatus == {"LIVE", "PENDING", "COMPLETE"}
PackageType == {"PLACE", "CANCEL", "UPDATE", "REPLACE"}
ReportStatus == {"SUCCESS", "FAILURE", "TIMEOUT", "MISSING"}

\* Mutant: Order.complete forgets that a CANCELLING order is still live.
Complete_Cancelling == {"EXECUTION_COMPLETE", "VIOLATION", "CANCELLING"}
\* Order.complete
Complete == {"EXECUTION_COMPLETE", "VIOLATION"}
\* A request about the order is with the exchange.
Awaiting == {"PENDING", "CANCELLING", "UPDATING", "REPLACING"}
\* The status a request gives the order.
Requested == [CANCEL |-> "CANCELLING", UPDATE |-> "UPDATING", REPLACE |-> "REPLACING"]

Bets == 1..Len(exch)
Instruction == [order : Order, bet : 0..MaxBets, size : 0..Size]
Report == [status : ReportStatus, bet : 0..MaxBets, size : 0..Size, new : 0..MaxBets]
Work == [order : Order \cup {NoOrder}, report : Report]
Snapshot == UNION {[S -> 0..Size] : S \in SUBSET (1..MaxBets)}
NoRecords == [b \in {} |-> 0]

PC == {"free", "queued", "sent", "handled", "next", "apply", "clear", "create",
       "settle", "exit", "release"}
PackageRecord ==
  [ pc        : PC,
    type      : PackageType,
    orders    : Seq(Order),        \* _orders
    retries   : 0..MaxRetries,     \* _retry_count
    processed : BOOLEAN,           \* the exchange has seen this customer_ref
    instr     : Seq(Instruction),  \* instructions still to be processed
    reports   : Seq(Report),       \* reports of those that were
    work      : Seq(Work),         \* reports still to be applied, with the order
    subject   : Order \cup {NoOrder} ] \* the order the thread is handling
Idle == [ pc |-> "free", type |-> "PLACE", orders |-> <<>>, retries |-> 0,
          processed |-> FALSE, instr |-> <<>>, reports |-> <<>>, work |-> <<>>,
          subject |-> NoOrder ]
NoPending == [type \in PackageType |-> <<>>]

Init ==
  /\ status = [o \in Order |-> "None"]
  /\ trade = [o \in Order |-> NoTrade]
  /\ betId = [o \in Order |-> 0]
  /\ remaining = [o \in Order |-> Size]
  /\ seen = {}
  /\ reduction = [o \in Order |-> 0]
  /\ newPrice = {}
  /\ blotter = {}
  /\ tstatus = [t \in Trade |-> "LIVE"]
  /\ liveTrades = {}
  /\ pending = NoPending
  /\ executing = FALSE
  /\ pkg = [p \in Package |-> Idle]
  /\ queue = <<>>
  /\ current = NoRecords
  /\ exch = <<>>
  /\ gaveUp = {}
  /\ requests = 0
  /\ restarts = 0

-----------------------------------------------------------------------------
(* Orders and trades *)

UnusedOrders == {o \in Order : status[o] = "None" /\ \A b \in Bets : exch[b].ref # o}
UnusedTrades == {t \in Trade : t \notin liveTrades /\ \A o \in Order : trade[o] # t}
FreePackages == {p \in Package : pkg[p].pc = "free"}
\* A uuid is never used twice; which unused identifier it is does not matter.
Fresh(S) == CHOOSE x \in S : TRUE

\* Trade.complete, for order statuses st
AllComplete(t, st) == \A o \in Order : trade[o] = t => st[o] \in Complete
\* Mutant: a trade is completed by Trade.__exit__ only.
TradeDone_ExitOnly(t, st) == FALSE
TradeDone(t, st) == tstatus[t] = "LIVE" /\ AllComplete(t, st)

\* Trade.complete_trade: the trade completes and RunnerContext.reset forgets it
CompleteTrade(t) ==
  /\ tstatus' = [tstatus EXCEPT ![t] = "COMPLETE"]
  /\ liveTrades' = liveTrades \ {t}

\* BaseOrder._update_status
UpdateStatus(o, s) ==
  /\ status' = [status EXCEPT ![o] = s]
  /\ IF s # "VIOLATION" /\ TradeDone(trade[o], status')
     THEN CompleteTrade(trade[o])
     ELSE UNCHANGED tradeVars

ClearData(o) ==
  /\ reduction' = [reduction EXCEPT ![o] = 0]
  /\ newPrice' = newPrice \ {o}

-----------------------------------------------------------------------------
(* The main thread: the strategy's callbacks and its Transaction *)

\* Flumine calls the strategy between two events only.
Callback == DOMAIN current = {} /\ ~executing
NoNewOrder == \A o \in Order : status[o] # "New"

\* Bets and orders the requests under way may still need (bounds only).
Asks(p, types, at) ==
  IF pkg[p].pc \in at /\ pkg[p].type \in types THEN 1..Len(pkg[p].orders) ELSE {}
Outstanding(types, at) ==
  Cardinality({o \in Order : "PLACE" \in types /\ status[o] = "New"})
  + Cardinality({x \in Package \X (1..MaxBatch) : x[2] \in Asks(x[1], types, at)})
  + Cardinality({x \in types \X (1..MaxBatch) : x[2] \in 1..Len(pending[x[1]])})
BetsLeft == Len(exch) + Outstanding({"PLACE", "REPLACE"}, {"queued", "sent"}) < MaxBets
OrdersLeft == Outstanding({"REPLACE"}, PC \ {"free"}) < Cardinality(UnusedOrders)
BatchLeft == \A type \in PackageType : Len(pending[type]) < MaxBatch

\* Mutant: one live trade too many
ValidateOrder_Inclusive(t) ==
  \/ MultiOrderTrades /\ t \in liveTrades
  \/ Cardinality(liveTrades) <= MaxLiveTrades
\* BaseStrategy.validate_order, as far as it depends on the trades that are live
ValidateOrder(t) ==
  \/ MultiOrderTrades /\ t \in liveTrades
  \/ Cardinality(liveTrades) < MaxLiveTrades

\* Trade.create_order, on a new trade or, with multi_order_trades, on one the
\* strategy already has
CreateOrder(o, t) ==
  /\ Callback /\ NoNewOrder
  /\ BetsLeft /\ OrdersLeft /\ BatchLeft
  /\ UnusedOrders # {} /\ o = Fresh(UnusedOrders)
  /\ IF t \in UnusedTrades THEN t = Fresh(UnusedTrades) ELSE MultiOrderTrades
  /\ status' = [status EXCEPT ![o] = "New"]
  /\ trade' = [trade EXCEPT ![o] = t]
  /\ UNCHANGED <<betId, remaining, seen, reduction, newPrice, blotter, tradeVars,
                 mainVars, pkg, exch, gaveUp, boundVars>>

\* Transaction.place_order, the controls passing
PlaceOrder(o) ==
  /\ status[o] = "New"
  /\ ValidateOrder(trade[o])
  /\ status' = [status EXCEPT ![o] = "PENDING"]
  /\ blotter' = blotter \cup {o}
  /\ liveTrades' = liveTrades \cup {trade[o]}
  /\ pending' = [pending EXCEPT !["PLACE"] = Append(@, o)]
  /\ UNCHANGED <<trade, betId, remaining, seen, reduction, newPrice, tstatus, executing,
                 queue, current, pkg, exch, gaveUp, boundVars>>

\* Transaction.place_order, a control failing: BaseControl._on_error.  Besides the
\* live trades it is max_trade_count, the reset seconds or another control.
RejectPlace(o) ==
  /\ status[o] = "New"
  /\ UpdateStatus(o, "VIOLATION")
  /\ ClearData(o)
  /\ UNCHANGED <<trade, betId, remaining, seen, blotter, mainVars, pkg, exch, gaveUp,
                 boundVars>>

\* What BetfairOrder.cancel, update and replace have in common, with the
\* Transaction method that calls them
Request(o, type) ==
  /\ Callback /\ NoNewOrder
  /\ type \in Kinds
  /\ o \in blotter /\ status[o] = "EXECUTABLE" /\ betId[o] # 0
  /\ BatchLeft
  /\ requests < MaxRequests
  /\ requests' = requests + 1
  /\ UNCHANGED <<trade, betId, remaining, seen, blotter, executing, queue, current, pkg,
                 exch, gaveUp, restarts>>

\* The controls pass: the order waits in the transaction.
Accept(o, type) ==
  /\ UpdateStatus(o, Requested[type])
  /\ pending' = [pending EXCEPT ![type] = Append(@, o)]

CancelOrder(o) ==
  /\ Request(o, "CANCEL")
  /\ Accept(o, "CANCEL")
  /\ \E r \in Reductions :
       /\ r <= remaining[o]
       /\ reduction' = [reduction EXCEPT ![o] = r]
  /\ UNCHANGED newPrice

UpdateOrder(o) ==
  /\ Request(o, "UPDATE")
  /\ Accept(o, "UPDATE")
  /\ UNCHANGED <<reduction, newPrice>>

ReplaceOrder(o) ==
  /\ Request(o, "REPLACE")
  /\ BetsLeft /\ OrdersLeft
  /\ Accept(o, "REPLACE")
  /\ newPrice' = newPrice \cup {o}
  /\ UNCHANGED reduction

\* A control fails on a cancel, update or replace, before the order looks at its own
\* bet id and status: BaseControl._on_error
RejectRequest(o) ==
  /\ Callback /\ NoNewOrder
  /\ Kinds # {} /\ "control" \in Faults
  /\ o \in blotter
  /\ requests <= MaxRequests /\ requests' = requests + 1
  /\ UpdateStatus(o, "VIOLATION")
  /\ ClearData(o)
  /\ UNCHANGED <<trade, betId, remaining, seen, blotter, mainVars, pkg, exch, gaveUp,
                 restarts>>

\* Transaction.execute: the packages are made in the order place, cancel,
\* update, replace and given to BaseExecution.handler.
PackageOrder == <<"PLACE", "CANCEL", "UPDATE", "REPLACE">>
Execute(i) ==
  LET type == PackageOrder[i] IN
  /\ DOMAIN current = {} /\ NoNewOrder
  /\ pending[type] # <<>>
  /\ \A j \in 1..(i - 1) : pending[PackageOrder[j]] = <<>>
  /\ FreePackages # {}
  /\ pkg' = [pkg EXCEPT ![Fresh(FreePackages)] =
               [Idle EXCEPT !.pc = "queued", !.type = type, !.orders = pending[type]]]
  /\ pending' = [pending EXCEPT ![type] = <<>>]
  /\ executing' = (\E j \in (i + 1)..4 : pending[PackageOrder[j]] # <<>>)
  /\ UNCHANGED <<orderVars, tradeVars, queue, current, exch, gaveUp, boundVars>>

-----------------------------------------------------------------------------
(* The main thread: order/process.py *)

\* The next CURRENT_ORDERS event; the transactions of a callback are over.
NextSnapshot ==
  /\ Callback /\ NoNewOrder /\ pending = NoPending
  /\ queue # <<>>
  /\ current' = Head(queue)
  /\ queue' = Tail(queue)
  /\ UNCHANGED <<orderVars, tradeVars, pending, executing, pkg, exch, gaveUp, boundVars>>

\* Mutant: the bet id of the record is not looked at.
OrderOf_Ref(b) == exch[b].ref
\* The order a record of bet b is about; NoOrder when it is skipped
OrderOf(b) ==
  LET ref == exch[b].ref IN
  IF betId[ref] \in {0, b} THEN ref
  ELSE IF \E o \in blotter : betId[o] = b THEN CHOOSE o \in blotter : betId[o] = b
       ELSE NoOrder

\* Mutant: only a PENDING order takes its status from the stream.
NewStatus_PendingOnly(o, bet, left) ==
  IF bet # 0 /\ status[o] = "PENDING"
  THEN IF left > 0 THEN "EXECUTABLE" ELSE "EXECUTION_COMPLETE"
  ELSE status[o]
\* process_current_order: the status an order takes from a record
NewStatus(o, bet, left) ==
  IF bet # 0 /\ status[o] = "PENDING"
  THEN IF left > 0 THEN "EXECUTABLE" ELSE "EXECUTION_COMPLETE"
  ELSE IF status[o] = "EXECUTABLE" /\ left = 0 THEN "EXECUTION_COMPLETE"
       ELSE status[o]

\* One record of the snapshot about an order in the blotter
ProcessCurrentOrder(b) ==
  LET o == OrderOf(b)
      bet == IF AsyncPlace /\ betId[o] = 0 THEN b ELSE betId[o] IN
  /\ b \in DOMAIN current
  /\ exch[b].ref \in blotter
  /\ o # NoOrder
  /\ remaining' = [remaining EXCEPT ![o] = current[b]]
  /\ seen' = seen \cup {o}
  /\ betId' = [betId EXCEPT ![o] = bet]
  /\ IF NewStatus(o, bet, current[b]) = status[o]
     THEN UNCHANGED <<status, reduction, newPrice, tradeVars>>
     ELSE UpdateStatus(o, NewStatus(o, bet, current[b])) /\ ClearData(o)
  /\ current' = [c \in DOMAIN current \ {b} |-> current[c]]
  /\ UNCHANGED <<trade, blotter, pending, executing, queue, pkg, exch, gaveUp, boundVars>>

\* A record of a replaced bet whose new order is not in the blotter
SkipCurrentOrder(b) ==
  /\ b \in DOMAIN current
  /\ exch[b].ref \in blotter
  /\ OrderOf(b) = NoOrder
  /\ current' = [c \in DOMAIN current \ {b} |-> current[c]]
  /\ UNCHANGED <<orderVars, tradeVars, pending, executing, queue, pkg, exch, gaveUp,
                 boundVars>>

\* A record of an order placed before a restart: create_order_from_current,
\* then process_current_order on the PENDING order it made
CreateOrderFromCurrent(b) ==
  LET o == exch[b].ref
      t == Fresh(UnusedTrades)
      s == IF current[b] > 0 THEN "EXECUTABLE" ELSE "EXECUTION_COMPLETE" IN
  /\ b \in DOMAIN current
  /\ o \notin blotter
  /\ UnusedTrades # {}
  /\ trade' = [trade EXCEPT ![o] = t]
  /\ betId' = [betId EXCEPT ![o] = b]
  /\ blotter' = blotter \cup {o}
  /\ status' = [status EXCEPT ![o] = s]
  /\ IF s = "EXECUTION_COMPLETE" THEN CompleteTrade(t)
     ELSE liveTrades' = liveTrades \cup {t} /\ UNCHANGED tstatus
  /\ remaining' = [remaining EXCEPT ![o] = current[b]]
  /\ seen' = seen \cup {o}
  /\ current' = [c \in DOMAIN current \ {b} |-> current[c]]
  /\ UNCHANGED <<reduction, newPrice, pending, executing, queue, pkg, exch, gaveUp,
                 boundVars>>

-----------------------------------------------------------------------------
(* The pool threads: the request (BetfairExecution._execution_helper) *)

Goto(p, pc) == pkg' = [pkg EXCEPT ![p].pc = pc]
Leave(p) == pkg' = [pkg EXCEPT ![p] = Idle]

\* BaseOrderPackage.orders: violated orders are left out at every reading
LiveOrders(p) == Select(pkg[p].orders, {o \in Order : status[o] # "VIOLATION"})

\* create_place_instruction, create_cancel_instruction, ...
MakeInstruction(p, o) ==
  [ order |-> o, bet |-> betId[o],
    size |-> IF pkg[p].type = "CANCEL" THEN reduction[o] ELSE 0 ]

\* create_replace_instruction reads update_data["new_price"]: KeyError without
NoPrice(p) ==
  /\ pkg[p].type = "REPLACE"
  /\ \E i \in DOMAIN LiveOrders(p) : LiveOrders(p)[i] \notin newPrice

\* The instructions are built and the request is sent.
SendRequest(p) ==
  /\ pkg[p].pc = "queued"
  /\ LiveOrders(p) # <<>> /\ ~NoPrice(p)
  /\ pkg' = [pkg EXCEPT
       ![p].pc = "sent",
       ![p].instr = [i \in DOMAIN LiveOrders(p) |-> MakeInstruction(p, LiveOrders(p)[i])],
       ![p].reports = <<>>]
  /\ UNCHANGED <<orderVars, tradeVars, mainVars, exch, gaveUp, boundVars>>

\* "Empty package, not executing", or a KeyError building the instructions
AbandonRequest(p) ==
  /\ pkg[p].pc = "queued"
  /\ LiveOrders(p) = <<>> \/ NoPrice(p)
  /\ Leave(p)
  /\ UNCHANGED <<orderVars, tradeVars, mainVars, exch, gaveUp, boundVars>>

\* Mutant: one retry too many
RetryLeft_Inclusive(p) == pkg[p].retries <= MaxRetries
RetryLeft(p) == pkg[p].retries < MaxRetries

\* Mutant: every submission has a customer_ref of its own.
KnownRef_New(p) == FALSE
\* The exchange knows customer_ref, the id of the package.
KnownRef(p) == pkg[p].processed \/ pkg[p].pc = "handled"

\* A BetfairError is retried with the same package until the retries run out.
RetryOrGiveUp(p) ==
  IF RetryLeft(p)
  THEN /\ pkg' = [pkg EXCEPT ![p].pc = "queued", ![p].retries = @ + 1,
                             ![p].processed = KnownRef(p),
                             ![p].instr = <<>>, ![p].reports = <<>>]
       /\ UNCHANGED gaveUp
  ELSE /\ Leave(p)
       /\ gaveUp' = gaveUp \cup Range(pkg[p].orders)

\* The exchange has seen nothing of the request, or all of it.
SeenNothing(p) == pkg[p].pc = "sent"
SeenAll(p) == pkg[p].pc = "handled" /\ pkg[p].instr = <<>>

\* The call raises: the request never arrived, or its reply was lost.
RequestError(p) ==
  /\ \/ "refused" \in Faults /\ SeenNothing(p)
     \/ "lost_reply" \in Faults /\ SeenAll(p)
  /\ RetryOrGiveUp(p)
  /\ UNCHANGED <<orderVars, tradeVars, mainVars, exch, boundVars>>

\* Any other exception is logged and the request forgotten.
RequestBroken(p) ==
  /\ "broken" \in Faults
  /\ SeenNothing(p) \/ SeenAll(p)
  /\ Leave(p)
  /\ gaveUp' = gaveUp \cup Range(pkg[p].orders)
  /\ UNCHANGED <<orderVars, tradeVars, mainVars, exch, boundVars>>

-----------------------------------------------------------------------------
(* The exchange (external), one instruction at a time *)

Bet(ref, left) == [ref |-> ref, left |-> left]

Processing(p, type) ==
  /\ pkg[p].pc \in {"sent", "handled"} /\ pkg[p].type = type
  /\ pkg[p].instr # <<>> /\ ~pkg[p].processed
  /\ UNCHANGED <<orderVars, tradeVars, mainVars, gaveUp, boundVars>>

\* The head instruction is done; rep is its report, none when it goes unreported.
Answer(p, rep) ==
  pkg' = [pkg EXCEPT ![p].pc = "handled", ![p].instr = Tail(@), ![p].reports = @ \o rep]
Reports(st, bet, size, new) ==
  <<[status |-> st, bet |-> bet, size |-> size, new |-> new]>>

ExchangePlace(p) ==
  LET o == Head(pkg[p].instr).order
      b == Len(exch) + 1 IN
  /\ Processing(p, "PLACE")
  /\ b <= MaxBets
  /\ \/ \E left \in 0..Size :
          /\ exch' = Append(exch, Bet(o, left))
          /\ \/ ~AsyncPlace /\ Answer(p, Reports("SUCCESS", b, left, 0))
             \/ AsyncPlace /\ Answer(p, Reports("SUCCESS", 0, Size, 0))
             \/ "timeout" \in Faults /\ Answer(p, Reports("TIMEOUT", 0, Size, 0))
     \/ /\ \/ "failure" \in Faults /\ Answer(p, Reports("FAILURE", 0, Size, 0))
           \/ "timeout" \in Faults /\ Answer(p, Reports("TIMEOUT", 0, Size, 0))
        /\ UNCHANGED exch

\* What a cancel with size reduction r takes off bet b, all of it when r is 0
Cancelled(b, r) == IF r = 0 \/ r > exch[b].left THEN exch[b].left ELSE r

ExchangeCancel(p) ==
  LET b == Head(pkg[p].instr).bet
      c == Cancelled(b, Head(pkg[p].instr).size) IN
  /\ Processing(p, "CANCEL")
  /\ \/ /\ exch[b].left > 0
        /\ exch' = [exch EXCEPT ![b].left = @ - c]
        /\ \/ Answer(p, Reports("SUCCESS", b, c, 0))
           \/ "timeout" \in Faults /\ Answer(p, Reports("TIMEOUT", b, 0, 0))
           \/ "unreported" \in Faults /\ Answer(p, <<>>)
     \/ /\ \/ /\ exch[b].left = 0 \/ "failure" \in Faults
              /\ Answer(p, Reports("FAILURE", b, 0, 0))
           \/ "timeout" \in Faults /\ Answer(p, Reports("TIMEOUT", b, 0, 0))
           \/ "unreported" \in Faults /\ Answer(p, <<>>)
        /\ UNCHANGED exch

ExchangeUpdate(p) ==
  LET b == Head(pkg[p].instr).bet IN
  /\ Processing(p, "UPDATE")
  /\ \E st \in ReportStatus \ {"MISSING"} :
       /\ st = "SUCCESS" => exch[b].left > 0
       /\ st = "FAILURE" => exch[b].left = 0 \/ "failure" \in Faults
       /\ st = "TIMEOUT" => "timeout" \in Faults
       /\ Answer(p, Reports(st, b, 0, 0))
  /\ UNCHANGED exch

\* The bet is cancelled and what was left of it placed as a new bet with the
\* customerOrderRef of the first; the cancel can succeed and the place fail.
ExchangeReplace(p) ==
  LET b == Head(pkg[p].instr).bet
      n == Len(exch) + 1
      dead == [exch EXCEPT ![b].left = 0] IN
  /\ Processing(p, "REPLACE")
  /\ n <= MaxBets
  /\ \/ /\ exch[b].left > 0
        /\ \E left \in 0..exch[b].left :
             /\ exch' = Append(dead, Bet(exch[b].ref, left))
             /\ \/ Answer(p, Reports("SUCCESS", b, left, n))
                \/ "timeout" \in Faults /\ Answer(p, Reports("TIMEOUT", b, 0, 0))
     \/ /\ exch[b].left > 0 /\ "failure" \in Faults
        /\ exch' = dead
        /\ Answer(p, Reports("SUCCESS", b, 0, 0))
     \/ /\ \/ /\ exch[b].left = 0 \/ "failure" \in Faults
              /\ Answer(p, Reports("FAILURE", b, 0, 0))
           \/ "timeout" \in Faults /\ Answer(p, Reports("TIMEOUT", b, 0, 0))
        /\ UNCHANGED exch

\* A bet is matched in part or in full, or it lapses.
ExchangeMatch(b) ==
  /\ exch[b].left > 0
  /\ \E left \in 0..(exch[b].left - 1) : exch' = [exch EXCEPT ![b].left = left]
  /\ UNCHANGED <<orderVars, tradeVars, mainVars, pkg, gaveUp, boundVars>>

\* OrderStream.handle_output: the stream's view of the bets goes to the main thread
Snap ==
  /\ Len(queue) < MaxEvents
  /\ queue' = Append(queue, [b \in Bets |-> exch[b].left])
  /\ UNCHANGED <<orderVars, tradeVars, pending, executing, current, pkg, exch, gaveUp,
                 boundVars>>

-----------------------------------------------------------------------------
(* The pool threads: the reports (execute_place, _cancel, _update, _replace) *)

\* Mutant: reports without a bet id are dropped before they are zipped.
Zip_Successes(orders, reports) ==
  LET some == SelectSeq(reports, LAMBDA r : r.bet # 0) IN
  [ i \in 1..(IF Len(orders) < Len(some) THEN Len(orders) ELSE Len(some)) |->
      [order |-> orders[i], report |-> some[i]] ]
\* zip(order_package, reports)
Zip(orders, reports) ==
  [ i \in 1..(IF Len(orders) < Len(reports) THEN Len(orders) ELSE Len(reports)) |->
      [order |-> orders[i], report |-> reports[i]] ]

\* Mutant: orders without a report are not reset.
Unreported_Kept(orders, reports) == <<>>
\* order_lookup.pop for the reports, in any order; NoOrder is the KeyError.
\* The orders that are left without a report follow.
Missing == [status |-> "MISSING", bet |-> 0, size |-> 0, new |-> 0]
Lookup(orders, reports) ==
  [ i \in DOMAIN reports |->
      [ order  |-> IF \E o \in Range(orders) : betId[o] = reports[i].bet
                   THEN CHOOSE o \in Range(orders) : betId[o] = reports[i].bet
                   ELSE NoOrder,
        report |-> reports[i] ] ]
Unreported(orders, reports) ==
  LET left == Select(orders, {o \in Order : betId[o] \notin {r.bet : r \in Range(reports)}})
  IN [i \in DOMAIN left |-> [order |-> left[i], report |-> Missing]]

Orderings(n) == {f \in [1..n -> 1..n] : IsInjective(f)}

\* The call returns and the reports are matched with the orders of the package.
\* A request the exchange has processed before is answered without reports.
Reply(p) ==
  LET orders == LiveOrders(p)
      reports == IF pkg[p].processed THEN <<>> ELSE pkg[p].reports IN
  /\ SeenAll(p) \/ (SeenNothing(p) /\ pkg[p].processed)
  /\ \E f \in Orderings(Len(reports)) :
       /\ pkg[p].type # "CANCEL" => f = [i \in DOMAIN reports |-> i]
       /\ LET sorted == [i \in DOMAIN reports |-> reports[f[i]]] IN
          pkg' = [pkg EXCEPT
            ![p].pc = "next", ![p].instr = <<>>, ![p].reports = <<>>,
            ![p].work = IF pkg[p].type = "CANCEL"
                        THEN Lookup(orders, sorted) \o Unreported(orders, sorted)
                        ELSE Zip(orders, sorted)]
  /\ gaveUp' = IF pkg[p].type # "CANCEL" /\ pkg[p].processed
               THEN gaveUp \cup Range(orders) ELSE gaveUp
  /\ UNCHANGED <<orderVars, tradeVars, mainVars, exch, boundVars>>

Item(p) == Head(pkg[p].work)

\* BetfairOrder.size_remaining after a place response: the stream goes first.
PlacedRemaining(o, r) == IF o \in seen THEN remaining[o] ELSE r.size

\* with order.trade: Trade.__enter__, then BaseExecution._order_logger
EnterTrade(p) ==
  LET o == Item(p).order
      r == Item(p).report IN
  /\ pkg[p].pc = "next"
  /\ pkg[p].work # <<>> /\ o # NoOrder
  /\ pkg' = [pkg EXCEPT ![p].pc = "apply", ![p].subject = o]
  /\ tstatus' = [tstatus EXCEPT ![trade[o]] = "PENDING"]
  /\ IF pkg[p].type = "PLACE"
     THEN /\ betId' = IF r.bet = 0 THEN betId ELSE [betId EXCEPT ![o] = r.bet]
          /\ remaining' = [remaining EXCEPT ![o] = PlacedRemaining(o, r)]
     ELSE UNCHANGED <<betId, remaining>>
  /\ UNCHANGED <<status, trade, seen, reduction, newPrice, blotter, liveTrades, mainVars,
                 exch, gaveUp, boundVars>>

\* All reports are applied, or order_lookup.pop raised KeyError.
Finish(p) ==
  /\ pkg[p].pc = "next"
  /\ pkg[p].work # <<>> => Item(p).order = NoOrder
  /\ Leave(p)
  /\ UNCHANGED <<orderVars, tradeVars, mainVars, exch, gaveUp, boundVars>>

\* The order a cancel report says is complete
CancelCompletes(o, r) ==
  r.status = "SUCCESS" /\ (r.size = remaining[o] \/ remaining[o] = 0)

PlaceOutcome(o, r) ==
  IF r.status = "FAILURE" THEN "EXECUTION_COMPLETE"
  ELSE IF r.status = "SUCCESS" /\ r.bet # 0 THEN "EXECUTABLE" ELSE status[o]

\* Mutant: a failed cancel leaves the order as it is.
CancelOutcome_Kept(o, r) ==
  IF CancelCompletes(o, r) THEN "EXECUTION_COMPLETE"
  ELSE IF r.status = "FAILURE" THEN status[o] ELSE "EXECUTABLE"
CancelOutcome(o, r) ==
  IF CancelCompletes(o, r) THEN "EXECUTION_COMPLETE" ELSE "EXECUTABLE"

\* Mutant: a replace whose cancel failed completes the order.
ReplaceOutcome_Failure(r) ==
  IF r.status = "TIMEOUT" THEN "EXECUTABLE" ELSE "EXECUTION_COMPLETE"
ReplaceOutcome(r) ==
  IF r.status = "SUCCESS" THEN "EXECUTION_COMPLETE" ELSE "EXECUTABLE"

\* The status the report gives the order
Outcome(type, o, r) ==
  CASE type = "PLACE" -> PlaceOutcome(o, r)
    [] type = "CANCEL" -> CancelOutcome(o, r)
    [] type = "UPDATE" -> "EXECUTABLE"
    [] type = "REPLACE" -> ReplaceOutcome(r)

\* PLACE reports that decide nothing: TIMEOUT, or accepted asynchronously
Undecided(p) ==
  pkg[p].type = "PLACE" /\ Item(p).report.status # "FAILURE" /\ Item(p).report.bet = 0

\* order.executable() or order.execution_complete(); executable() clears
\* update_data after the status has been published and logged.
ApplyReport(p) ==
  LET o == Item(p).order
      r == Item(p).report
      s == Outcome(pkg[p].type, o, r) IN
  /\ pkg[p].pc = "apply"
  /\ ~Undecided(p)
  /\ UpdateStatus(o, s)
  /\ IF s = "EXECUTABLE" THEN UNCHANGED <<reduction, newPrice>> ELSE ClearData(o)
  /\ Goto(p, IF s = "EXECUTABLE" THEN "clear"
             ELSE IF r.new # 0 THEN "create" ELSE "exit")
  /\ UNCHANGED <<trade, betId, remaining, seen, blotter, mainVars, exch, gaveUp, boundVars>>

PassReport(p) ==
  /\ pkg[p].pc = "apply"
  /\ Undecided(p)
  /\ Goto(p, "exit")
  /\ gaveUp' = IF Item(p).report.status = "TIMEOUT"
               THEN gaveUp \cup {Item(p).order} ELSE gaveUp
  /\ UNCHANGED <<orderVars, tradeVars, mainVars, exch, boundVars>>

\* executable(), second half: update_data.clear()
ClearUpdateData(p) ==
  /\ pkg[p].pc = "clear"
  /\ ClearData(pkg[p].subject)
  /\ Goto(p, "exit")
  /\ UNCHANGED <<status, trade, betId, remaining, seen, blotter, tradeVars, mainVars, exch,
                 gaveUp, boundVars>>

\* Mutant: the replacement takes the bet id of the cancel report.
ReplacementBet_Old(r) == r.bet
ReplacementBet(r) == r.new

\* Trade.create_order_replacement, the bet id, and place_order(execute=False)
CreateReplacement(p) ==
  LET n == Fresh(UnusedOrders)
      r == Item(p).report IN
  /\ pkg[p].pc = "create"
  /\ UnusedOrders # {}
  /\ status' = [status EXCEPT ![n] = "PENDING"]
  /\ trade' = [trade EXCEPT ![n] = trade[Item(p).order]]
  /\ betId' = [betId EXCEPT ![n] = ReplacementBet(r)]
  /\ remaining' = [remaining EXCEPT ![n] = r.size]
  /\ blotter' = blotter \cup {n}
  /\ pkg' = [pkg EXCEPT ![p].pc = "settle", ![p].subject = n]
  /\ UNCHANGED <<seen, reduction, newPrice, tradeVars, mainVars, exch, gaveUp, boundVars>>

\* replacement_order.executable()
SettleReplacement(p) ==
  /\ pkg[p].pc = "settle"
  /\ UpdateStatus(pkg[p].subject, "EXECUTABLE")
  /\ Goto(p, "clear")
  /\ UNCHANGED <<trade, betId, remaining, seen, reduction, newPrice, blotter, mainVars, exch,
                 gaveUp, boundVars>>

\* Trade.__exit__: the trade is LIVE again, and complete if its orders are
NextItem(p) ==
  pkg' = [pkg EXCEPT ![p].pc = "next", ![p].work = Tail(@), ![p].subject = NoOrder]
ExitTrade(p) ==
  LET t == trade[Item(p).order] IN
  /\ pkg[p].pc = "exit"
  /\ tstatus' = [tstatus EXCEPT ![t] = "LIVE"]
  /\ IF AllComplete(t, status) THEN Goto(p, "release") ELSE NextItem(p)
  /\ UNCHANGED <<orderVars, liveTrades, mainVars, exch, gaveUp, boundVars>>

\* Trade.complete_trade, called from __exit__
ReleaseTrade(p) ==
  /\ pkg[p].pc = "release"
  /\ CompleteTrade(trade[Item(p).order])
  /\ NextItem(p)
  /\ UNCHANGED <<orderVars, mainVars, exch, gaveUp, boundVars>>

-----------------------------------------------------------------------------
\* The process stops at any point and is started again: what it kept is gone.
Restart ==
  /\ restarts < MaxRestarts
  /\ restarts' = restarts + 1
  /\ status' = [o \in Order |-> "None"]
  /\ trade' = [o \in Order |-> NoTrade]
  /\ betId' = [o \in Order |-> 0]
  /\ remaining' = [o \in Order |-> Size]
  /\ seen' = {}
  /\ reduction' = [o \in Order |-> 0]
  /\ newPrice' = {}
  /\ blotter' = {}
  /\ tstatus' = [t \in Trade |-> "LIVE"]
  /\ liveTrades' = {}
  /\ pending' = NoPending
  /\ executing' = FALSE
  /\ pkg' = [p \in Package |-> Idle]
  /\ queue' = <<>>
  /\ current' = NoRecords
  /\ gaveUp' = {}
  /\ UNCHANGED <<exch, requests>>

Strategy == \E o \in Order :
  \/ \E t \in Trade : CreateOrder(o, t)
  \/ CancelOrder(o) \/ UpdateOrder(o) \/ ReplaceOrder(o) \/ RejectRequest(o)
Main ==
  \/ \E o \in Order : PlaceOrder(o) \/ RejectPlace(o)
  \/ \E i \in 1..4 : Execute(i)
  \/ NextSnapshot
  \/ \E b \in Bets :
       ProcessCurrentOrder(b) \/ SkipCurrentOrder(b) \/ CreateOrderFromCurrent(b)
Thread(p) ==
  \/ SendRequest(p) \/ AbandonRequest(p)
  \/ ExchangePlace(p) \/ ExchangeCancel(p) \/ ExchangeUpdate(p) \/ ExchangeReplace(p)
  \/ Reply(p) \/ EnterTrade(p) \/ Finish(p)
  \/ ApplyReport(p) \/ PassReport(p) \/ ClearUpdateData(p)
  \/ CreateReplacement(p) \/ SettleReplacement(p)
  \/ ExitTrade(p) \/ ReleaseTrade(p)
Next ==
  \/ Strategy \/ Main \/ Snap \/ Restart
  \/ \E p \in Package : Thread(p) \/ RequestError(p) \/ RequestBroken(p)
  \/ \E b \in Bets : ExchangeMatch(b)

Spec == Init /\ [][Next]_vars
\* The main thread, every pool thread with its call, and the order stream run on.
Fairness == WF_vars(Main) /\ WF_vars(Snap) /\ \A p \in Package : WF_vars(Thread(p))
FairSpec == Spec /\ Fairness

-----------------------------------------------------------------------------
(* Properties *)

TypeOK ==
  /\ status \in [Order -> OrderStatus]
  /\ trade \in [Order -> Trade \cup {NoTrade}]
  /\ betId \in [Order -> 0..MaxBets]
  /\ remaining \in [Order -> 0..Size]
  /\ seen \subseteq Order
  /\ reduction \in [Order -> 0..Size]
  /\ newPrice \subseteq Order
  /\ blotter \subseteq Order
  /\ tstatus \in [Trade -> TradeStatus]
  /\ liveTrades \subseteq Trade
  /\ pending \in [PackageType -> Seq(Order)]
  /\ executing \in BOOLEAN
  /\ pkg \in [Package -> PackageRecord]
  /\ queue \in Seq(Snapshot)
  /\ current \in Snapshot
  /\ exch \in Seq([ref : Order, left : 0..Size]) /\ Len(exch) <= MaxBets
  /\ gaveUp \subseteq Order
  /\ requests \in Nat
  /\ restarts \in Nat

Left(o) == IF betId[o] = 0 THEN 0 ELSE exch[betId[o]].left

\* An order is EXECUTION_COMPLETE only when nothing of its bet is left at the
\* exchange (order.py: "does not have any remaining unmatched portion"). The
\* main thread and the pool threads both complete orders, each from its own
\* possibly outdated view: a snapshot, or a report compared with one.
CompleteIsDone ==
  \A o \in Order : status[o] = "EXECUTION_COMPLETE" => Left(o) = 0

\* A bet id is given to the order the bet was placed for, or to its replacement
\* in the same trade, and to no other order.
RightBet ==
  \A o \in Order : betId[o] # 0 =>
    LET ref == exch[betId[o]].ref IN
    /\ betId[o] \in Bets
    /\ \A n \in Order \ {o} : betId[n] # betId[o]
    /\ ref = o \/ (status[ref] # "None" /\ trade[ref] = trade[o]
                    /\ \A b \in Bets : exch[b].ref # o)

\* The local view of what remains never falls below the exchange's: exposure
\* computed from it is never too low.
NeverUnderstated ==
  \A o \in Order : betId[o] # 0 => Left(o) <= remaining[o]

InPackage(p, o) ==
  \/ pkg[p].pc \in {"queued", "sent", "handled"} /\ o \in Range(pkg[p].orders)
  \/ pkg[p].pc \in {"next", "apply"} /\ \E w \in Range(pkg[p].work) : w.order = o
  \/ pkg[p].pc \in {"clear", "create", "settle", "exit", "release"}
     /\ \/ o = pkg[p].subject /\ pkg[p].pc = "settle"
        \/ \E w \in Range(Tail(pkg[p].work)) : w.order = o

\* An order that waits for the exchange has a request that is on its way, or
\* given up after a fault: it does not wait for nothing.
PendingHasRequest ==
  \A o \in Order : status[o] \in Awaiting =>
    \/ \E type \in PackageType : o \in Range(pending[type])
    \/ \E p \in Package : InPackage(p, o)
    \/ o \in gaveUp
    \/ AsyncPlace /\ status[o] = "PENDING" /\ betId[o] = 0

\* A live bet belongs to a trade that validate_order counts.
LiveBetTracked ==
  \A o \in Order : Left(o) > 0 => trade[o] \in liveTrades

\* strategy.max_live_trade_count bounds the trades that have a live bet.
LiveTradeBound ==
  Cardinality({t \in Trade : \E o \in Order : trade[o] = t /\ Left(o) > 0}) <= MaxLiveTrades

\* A request is answered: no order waits for the exchange for ever.
Answered ==
  \A o \in Order : (status[o] \in Awaiting) ~> (status[o] \notin Awaiting)

\* Once all its orders are complete a trade makes room for the next one.
TradeReleased ==
  \A t \in Trade :
    (t \in liveTrades /\ \A o \in Order : trade[o] = t => status[o] \in Complete)
      ~> (t \notin liveTrades)
=============================================================================
