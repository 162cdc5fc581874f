--------------------------- MODULE OrderBetsProofs ----------------------------
(***************************************************************************)
(* What becomes of the orders of OrderExecution and of their bets, for any *)
(* number of orders, trades, packages and bets:                            *)
(*   - when an order is complete (CompleteIsDone),                         *)
(*   - what it waits for (PendingHasRequest),                              *)
(*   - which trades are counted (LiveBetTracked, LiveTradeBound),          *)
(*   - that the orders follow OrderLedger, step by step                    *)
(*     (ImplementsLedgerSafely).                                           *)
(* Each part rests on the invariants of those before and on those of       *)
(* OrderExecutionProofs.                                                   *)
(***************************************************************************)
EXTENDS OrderExecutionProofs, OrderRefinement

-----------------------------------------------------------------------------
(* The inductive invariant of complete orders *)

\* Cancels have no size reduction.  With one, execute_cancel takes the size of the
\* report for the rest of the order, and CompleteIsDone does not hold.
FullCancels == Reductions \subseteq {0}

\* Nothing is left of the bet; of the bet of the order, or of any that it may get.
Empty(b) == b \in 1..Len(exch) /\ exch[b].left = 0
Done(o) ==
  IF betId[o] = 0 THEN \A b \in 1..Len(exch) : exch[b].ref = o => Empty(b)
  ELSE Empty(betId[o])
\* The order is at the exchange for good, and nothing is left of it.
Settled(o) == o \in blotter /\ ~Waits(o) /\ Done(o)

\* The reports that complete an order
Final(type, r) ==
  \/ type = "PLACE" /\ r.status = "FAILURE"
  \/ type \in {"CANCEL", "REPLACE"} /\ r.status = "SUCCESS"
\* The reports to apply are for settled orders; so are those of a place or a replace
\* that is not over; what was cancelled is empty.  An instruction has the bet id of the
\* order and no size reduction.
WorkDone(k) ==
  \A i \in 1..Len(k.work) :
    Final(k.type, k.work[i].report) /\ k.work[i].order # NoOrder => Settled(k.work[i].order)
ReportsDone(k) ==
  \A i \in 1..Len(k.reports) : Final(k.type, k.reports[i]) =>
    IF k.type = "CANCEL" THEN Empty(k.reports[i].bet) ELSE Settled(k.orders[i])
InstrDone(k) ==
  \A i \in 1..Len(k.instr) : k.type # "PLACE" =>
    k.instr[i].size = 0 /\ k.instr[i].bet = betId[k.instr[i].order]
DoneBy(k) == WorkDone(k) /\ ReportsDone(k) /\ InstrDone(k)

StatusDone == \A o \in Order : status[o] = "EXECUTION_COMPLETE" => Settled(o)
DoneInv ==
  /\ \A o \in Order : reduction[o] = 0
  /\ StatusDone
  /\ \A p \in Package : DoneBy(pkg[p])

-----------------------------------------------------------------------------
(* What is settled remains so *)

Lasts ==
  \A o \in Order :
    /\ Settled(o) => Settled(o)'
    /\ betId[o] # 0 => betId'[o] = betId[o]

LEMMA EmptyKept ==
  ASSUME TypeInv, TypeInv', Follows, NEW b, Empty(b)
  PROVE  Empty(b)'
<1>1. b \in 1..Len(exch) /\ exch[b].left <= 0
  BY DEF Empty
<1>2. exch'[b].left <= 0
  BY <1>1, BetsLess
<1>3. exch' \in Seq([ref : Order, left : 0..Size]) /\ b \in 1..Len(exch')
  BY <1>1 DEF TypeInv, ExchangeOK, Follows
<1>4. exch'[b].left \in 0..Size
  BY <1>3, BetsType
<1> QED
  BY <1>2, <1>3, <1>4 DEF Empty

LEMMA SettledKept ==
  ASSUME TypeInv, TypeInv', Follows, NEW o \in Order, Settled(o), o \in blotter', ~Waits(o)',
         \/ betId'[o] = betId[o]
         \/ betId[o] = 0 /\ betId'[o] \in 1..Len(exch) /\ exch[betId'[o]].ref = o,
         \A b \in 1..Len(exch') :
           b \in 1..Len(exch) \/ exch'[b].ref # o \/ betId[o] # 0
  PROVE  Settled(o)'
<1>1. CASE betId[o] # 0
  <2>1. PICK b : b = betId[o]
    OBVIOUS
  <2>2. Empty(b)' /\ betId'[o] = b
    BY <1>1, <2>1, EmptyKept DEF Settled, Done
  <2> QED
    BY <1>1, <2>1, <2>2 DEF Settled, Done, Empty
<1>2. CASE betId[o] = 0
  <2>1. \A b \in 1..Len(exch) : exch[b].ref = o => Empty(b)'
    BY <1>2, EmptyKept DEF Settled, Done
  <2>2. CASE betId'[o] = 0
    <3>1. \A b \in 1..Len(exch') : exch'[b].ref = o => b \in 1..Len(exch) /\ exch[b].ref = o
      BY <1>2 DEF Follows
    <3>2. \A b \in 1..Len(exch') : exch'[b].ref = o => Empty(b)'
      BY <2>1, <3>1
    <3> QED
      BY <2>2, <3>2 DEF Settled, Done, Empty
  <2>3. CASE betId'[o] # 0
    <3>1. PICK c : c = betId'[o]
      OBVIOUS
    <3>2. Empty(c)'
      BY <1>2, <2>1, <2>3, <3>1
    <3> QED
      BY <2>3, <3>1, <3>2 DEF Settled, Done, Empty
  <2> QED
    BY <2>2, <2>3
<1> QED
  BY <1>1, <1>2

\* Neither the bets nor the orders' bet ids change.
LEMMA LastsQuiet ==
  ASSUME TypeInv, TypeInv', UNCHANGED <<betId, exch>>, blotter \subseteq blotter',
         \A o \in blotter : Waits(o)' => Waits(o)
  PROVE  Lasts
<1>1. Follows
  BY SameFollows
<1>2. ASSUME NEW o \in Order, Settled(o)
      PROVE  Settled(o)'
  <2>1. o \in blotter' /\ ~Waits(o)'
    BY <1>2 DEF Settled
  <2> QED
    BY <1>1, <1>2, <2>1, SettledKept
<1> QED
  BY <1>2 DEF Lasts

\* An order gets a bet that was placed for it, or is new.
LEMMA LastsTakes ==
  ASSUME TypeInv, TypeInv', Calm, exch' = exch, blotter \subseteq blotter',
         NEW x \in Order, \A o \in Order \ {x} : betId'[o] = betId[o],
         \/ betId'[x] = betId[x]
         \/ /\ betId[x] = 0
            /\ x \notin blotter \/ (betId'[x] \in 1..Len(exch) /\ exch[betId'[x]].ref = x)
  PROVE  Lasts
<1>1. Follows
  BY SameFollows
<1>2. ASSUME NEW o \in Order, Settled(o)
      PROVE  Settled(o)'
  <2>1. o \in blotter /\ o \in blotter' /\ ~Waits(o)'
    BY <1>2, CalmWaits DEF Settled
  <2> QED
    BY <1>1, <1>2, <2>1, SettledKept
<1> QED
  BY <1>2 DEF Lasts

\* The exchange takes off bets, and adds one for an order that waits or has a bet.
LEMMA LastsBets ==
  ASSUME TypeInv, TypeInv', Calm, Follows, UNCHANGED <<betId, blotter>>,
         \A b \in 1..Len(exch') :
           b \in 1..Len(exch) \/ betId[exch'[b].ref] # 0 \/ \E o : exch'[b].ref = o /\ Waits(o)
  PROVE  Lasts
<1>2. ASSUME NEW o \in Order, Settled(o)
      PROVE  Settled(o)'
  <2>1. o \in blotter' /\ ~Waits(o)' /\ ~Waits(o)
    BY <1>2, CalmWaits DEF Settled
  <2> QED
    BY <1>2, <2>1, SettledKept
<1> QED
  BY <1>2 DEF Lasts

LEMMA LastsThread ==
  ASSUME TypeInv, TypeInv', TrackedInv, BetInv, ViewInv, NEW p \in Package,
         \/ SendRequest(p) \/ AbandonRequest(p) \/ RequestError(p) \/ RequestBroken(p)
         \/ Reply(p) \/ EnterTrade(p) \/ Finish(p)
         \/ ApplyReport(p) \/ PassReport(p) \/ ClearUpdateData(p)
         \/ CreateReplacement(p) \/ SettleReplacement(p) \/ ExitTrade(p) \/ ReleaseTrade(p)
  PROVE  Lasts
<1>1. Calm
  BY RequestCalm, ReportCalm
<1>2. \A o \in blotter : Waits(o)' => Waits(o)
  BY <1>1, CalmWaits
<1>3. exch' = exch
  BY DEF SendRequest, AbandonRequest, RequestError, RequestBroken, Reply, EnterTrade, Finish,
         ApplyReport, PassReport, ClearUpdateData, CreateReplacement, SettleReplacement,
         ExitTrade, ReleaseTrade
<1>4. CASE EnterTrade(p) /\ pkg[p].type = "PLACE"
  <2>1. PICK o, c : o = Item(p).order /\ c = Item(p).report.bet
    OBVIOUS
  <2>2. /\ pkg[p].pc = "next" /\ pkg[p].work # <<>> /\ o # NoOrder /\ blotter' = blotter
        /\ betId' = IF c = 0 THEN betId ELSE [betId EXCEPT ![o] = c]
    BY <1>4, <2>1 DEF EnterTrade
  <2>3. o \in Order
    <3>1. o \in blotter
      BY <2>1, <2>2, ItemTracked
    <3> QED
      BY <3>1 DEF TypeInv, OrdersOK
  <2>4. c # 0 => c \in 1..Len(exch) /\ exch[c].ref = o /\ betId[o] = 0
    <3>1. c = IF pkg[p].type = "PLACE" THEN Item(p).report.bet ELSE Item(p).report.new
      BY <1>4, <2>1
    <3> QED
      BY <1>4, <2>1, <2>2, <3>1, HeadClaim
  <2>5. /\ \A n \in Order \ {o} : betId'[n] = betId[n]
        /\ betId'[o] = IF c = 0 THEN betId[o] ELSE c
    BY <2>2, <2>3 DEF TypeInv, OrdersOK
  <2> QED
    BY <1>1, <1>3, <2>2, <2>3, <2>4, <2>5, LastsTakes
<1>5. CASE CreateReplacement(p)
  <2>1. PICK n : n = Fresh(UnusedOrders)
    OBVIOUS
  <2>2. /\ UnusedOrders # {} /\ blotter' = blotter \cup {n}
        /\ \E c : betId' = [betId EXCEPT ![n] = c]
    BY <1>5, <2>1 DEF CreateReplacement
  <2>3. n \in Order /\ n \notin blotter /\ betId[n] = 0
    BY <2>1, <2>2, FreshOrder DEF TrackedInv, BlotterInv
  <2>4. \A o \in Order \ {n} : betId'[o] = betId[o]
    BY <2>2, <2>3 DEF TypeInv, OrdersOK
  <2> QED
    BY <1>1, <1>3, <2>2, <2>3, <2>4, LastsTakes
<1>6. CASE UNCHANGED <<betId, blotter>>
  BY <1>2, <1>3, <1>6, LastsQuiet
<1> QED
  BY <1>4, <1>5, <1>6
  DEF SendRequest, AbandonRequest, RequestError, RequestBroken, Reply, EnterTrade, Finish,
      ApplyReport, PassReport, ClearUpdateData, SettleReplacement, ExitTrade, ReleaseTrade,
      orderVars

LEMMA LastsExchange ==
  ASSUME TypeInv, TypeInv', TrackedInv, BetInv, ViewInv, NEW p \in Package,
         ExchangePlace(p) \/ ExchangeCancel(p) \/ ExchangeUpdate(p) \/ ExchangeReplace(p)
  PROVE  Lasts /\ Follows
<1>1. /\ \E type \in PackageType : Processing(p, type)
      /\ Follows
      /\ \E rep : Answer(p, rep) /\ (rep = <<>> \/ \E r : rep = <<r>>)
  BY PlaceShape, CancelShape, UpdateShape, ReplaceShape, SameFollows DEF PackageType
<1>2. /\ UNCHANGED <<betId, blotter, pending>>
      /\ pkg[p].pc \in {"sent", "handled"} /\ pkg[p].instr # <<>> /\ ~pkg[p].processed
  BY <1>1 DEF Processing, orderVars, mainVars
<1>3. Calm
  BY <1>1, <1>2, AnswerCalm
<1>4. Len(exch) \in Nat /\ Len(exch') \in Nat
  BY DEF TypeInv, ExchangeOK
<1>5. CASE ExchangeCancel(p) \/ ExchangeUpdate(p)
  <2>1. Len(exch') = Len(exch)
    BY <1>5, CancelShape, UpdateShape
  <2> QED
    BY <1>1, <1>2, <1>3, <2>1, LastsBets
<1>6. CASE ExchangePlace(p)
  <2>1. PICK o : o = Head(pkg[p].instr).order
    OBVIOUS
  <2>2. /\ exch' = exch \/ (Len(exch') = Len(exch) + 1 /\ exch'[Len(exch')].ref = o)
        /\ pkg[p].type = "PLACE"
    BY <1>6, <2>1, PlaceShape DEF Processing
  <2>3. Waits(o)
    BY <1>6, <2>1, PlacedOnce
  <2>4. ASSUME NEW b \in 1..Len(exch'), b \notin 1..Len(exch)
        PROVE  exch'[b].ref = o
    <3>1. Len(exch') = Len(exch) + 1 /\ exch'[Len(exch')].ref = o
      BY <2>2, <2>4
    <3>2. b = Len(exch')
      BY <1>4, <2>4, <3>1
    <3> QED
      BY <3>1, <3>2
  <2> QED
    BY <1>1, <1>2, <1>3, <2>3, <2>4, LastsBets
<1>7. CASE ExchangeReplace(p)
  <2>1. PICK b : b = Head(pkg[p].instr).bet
    OBVIOUS
  <2>2. /\ b \in 1..Len(exch) /\ pkg[p].type = "REPLACE"
        /\ \/ Len(exch') = Len(exch)
           \/ Len(exch') = Len(exch) + 1 /\ exch'[Len(exch')].ref = exch[b].ref
    BY <1>7, <2>1, ReplaceShape DEF Processing
  <2>3. betId[exch[b].ref] # 0
    <3>1. Kin(b, Head(pkg[p].instr).order)
      BY <1>2, <2>1, <2>2, InstrHead DEF BetInv, InstrOK
    <3> QED
      BY <3>1 DEF Kin
  <2>4. ASSUME NEW x \in 1..Len(exch'), x \notin 1..Len(exch)
        PROVE  exch'[x].ref = exch[b].ref
    <3>1. Len(exch') = Len(exch) + 1 /\ exch'[Len(exch')].ref = exch[b].ref
      BY <2>2, <2>4
    <3>2. x = Len(exch')
      BY <1>4, <2>4, <3>1
    <3> QED
      BY <3>1, <3>2
  <2> QED
    BY <1>1, <1>2, <1>3, <2>3, <2>4, LastsBets
<1> QED
  BY <1>5, <1>6, <1>7

LEMMA LastsMain ==
  ASSUME TypeInv, TypeInv', TrackedInv,
         \/ \E o \in Order :
              \/ \E t \in Trade : CreateOrder(o, t)
              \/ CancelOrder(o) \/ UpdateOrder(o) \/ ReplaceOrder(o) \/ RejectRequest(o)
              \/ PlaceOrder(o) \/ RejectPlace(o)
         \/ \E i \in 1..4 : Execute(i)
         \/ NextSnapshot \/ Snap \/ \E b \in Bets : SkipCurrentOrder(b)
         \/ UNCHANGED vars
  PROVE  Lasts
<1>1. UNCHANGED <<betId, exch>> /\ blotter \subseteq blotter'
  BY DEF CreateOrder, CancelOrder, UpdateOrder, ReplaceOrder, RejectRequest, Request,
         PlaceOrder, RejectPlace, Execute, NextSnapshot, Snap, SkipCurrentOrder, vars, orderVars
<1>2. \A x \in blotter : Waits(x)' => Waits(x)
  <2>1. ASSUME NEW o \in Order, PlaceOrder(o)
        PROVE  \A x \in blotter : Waits(x)' => Waits(x)
    <3>1. o \notin blotter
      BY <2>1 DEF PlaceOrder, TrackedInv, BlotterInv
    <3> QED
      BY <2>1, <3>1, PlaceWaits
  <2>2. ASSUME NEW i \in 1..4, Execute(i)
        PROVE  \A x \in blotter : Waits(x)' => Waits(x)
    BY <2>2, ExecuteWaits
  <2>3. CASE \/ \E o \in Order :
                  \/ \E t \in Trade : CreateOrder(o, t)
                  \/ CancelOrder(o) \/ UpdateOrder(o) \/ ReplaceOrder(o) \/ RejectRequest(o)
                  \/ RejectPlace(o)
             \/ NextSnapshot \/ Snap \/ \E b \in Bets : SkipCurrentOrder(b)
             \/ UNCHANGED vars
    <3>1. pkg' = pkg /\ pending'["PLACE"] = pending["PLACE"]
      BY <2>3 DEF CreateOrder, CancelOrder, UpdateOrder, ReplaceOrder, RejectRequest, Request,
             Accept, RejectPlace, NextSnapshot, Snap, SkipCurrentOrder, vars, mainVars,
             TypeInv, MainOK, PackageType
    <3>2. Calm
      BY <3>1 DEF Calm
    <3> QED
      BY <3>2, CalmWaits
  <2> QED
    BY <2>1, <2>2, <2>3
<1> QED
  BY <1>1, <1>2, LastsQuiet

LEMMA LastsRecord ==
  ASSUME TypeInv, TypeInv', TrackedInv, NEW b \in Bets,
         ProcessCurrentOrder(b) \/ CreateOrderFromCurrent(b) \/ ExchangeMatch(b)
  PROVE  Lasts /\ Follows
<1>1. UNCHANGED <<pkg, pending>>
  BY DEF ProcessCurrentOrder, CreateOrderFromCurrent, ExchangeMatch, mainVars
<1>2. Calm
  BY <1>1 DEF Calm
<1>3. CASE ProcessCurrentOrder(b)
  <2>1. PICK o, bet : /\ o = OrderOf(b)
                      /\ bet = IF AsyncPlace /\ betId[o] = 0 THEN b ELSE betId[o]
    OBVIOUS
  <2>2. /\ b \in DOMAIN current /\ exch[b].ref \in blotter /\ o # NoOrder
        /\ betId' = [betId EXCEPT ![o] = bet] /\ UNCHANGED <<blotter, exch>>
    BY <1>3, <2>1 DEF ProcessCurrentOrder
  <2>3. /\ o \in Order
        /\ \/ o = exch[b].ref /\ betId[o] \in {0, b}
           \/ betId[o] = b
    BY <2>1, <2>2, OrderOfType
  <2>4. b \in 1..Len(exch) /\ b # 0
    <3>1. b \in 1..Len(exch)
      BY <2>2, RecordTypes
    <3> QED
      BY <3>1
  <2>5. \A x \in Order \ {o} : betId'[x] = betId[x]
    BY <2>2, <2>3 DEF TypeInv, OrdersOK
  <2>6. betId'[o] = bet
    BY <2>2, <2>3 DEF TypeInv, OrdersOK
  <2>7. \/ betId'[o] = betId[o]
        \/ betId[o] = 0 /\ betId'[o] \in 1..Len(exch) /\ exch[betId'[o]].ref = o
    BY <2>1, <2>3, <2>4, <2>6
  <2> QED
    BY <1>2, <2>2, <2>3, <2>5, <2>7, LastsTakes, SameFollows
<1>4. CASE CreateOrderFromCurrent(b)
  <2>1. PICK o : o = exch[b].ref
    OBVIOUS
  <2>2. /\ b \in DOMAIN current /\ o \notin blotter /\ blotter' = blotter \cup {o}
        /\ betId' = [betId EXCEPT ![o] = b] /\ exch' = exch
    BY <1>4, <2>1 DEF CreateOrderFromCurrent
  <2>3. o \in Order
    BY <2>1, <2>2, RecordTypes
  <2>4. betId[o] = 0 /\ \A x \in Order \ {o} : betId'[x] = betId[x]
    BY <2>2, <2>3 DEF TypeInv, OrdersOK, TrackedInv, BlotterInv
  <2> QED
    BY <1>2, <2>2, <2>3, <2>4, LastsTakes, SameFollows
<1>5. CASE ExchangeMatch(b)
  <2>1. PICK left \in 0..(exch[b].left - 1) : exch' = [exch EXCEPT ![b].left = left]
    BY <1>5 DEF ExchangeMatch
  <2>2. b \in 1..Len(exch) /\ exch[b].left \in 0..Size
    BY BetType DEF Bets
  <2>3. left \in 0..Size /\ left <= exch[b].left
    BY <2>2, BoundAssumption
  <2>4. Len(exch') = Len(exch) /\ Len(exch) \in Nat
    BY <2>1, <2>2, <2>3, LessFollows DEF TypeInv, ExchangeOK
  <2>5. \A c \in 1..Len(exch) : exch'[c].ref = exch[c].ref /\ exch'[c].left <= exch[c].left
    BY <2>1, <2>2, <2>3, LessFollows
  <2>6. Follows
    BY <2>4, <2>5 DEF Follows
  <2>7. UNCHANGED <<betId, blotter>>
    BY <1>5 DEF ExchangeMatch, orderVars
  <2> QED
    BY <1>2, <2>4, <2>6, <2>7, LastsBets
<1> QED
  BY <1>3, <1>4, <1>5

-----------------------------------------------------------------------------
(* The packages *)

\* ReportsDone after a step, of orders and bets that are fixed
LEMMA ReportsNow ==
  ASSUME NEW q \in Package,
         \A i \in 1..Len(pkg'[q].reports) : Final(pkg'[q].type, pkg'[q].reports[i]) =>
           /\ pkg'[q].type = "CANCEL" =>
                \A c : c = pkg'[q].reports[i].bet => Empty(c)'
           /\ pkg'[q].type # "CANCEL" =>
                \A o : o = pkg'[q].orders[i] => Settled(o)'
  PROVE  ReportsDone(pkg[q])'
<1> SUFFICES ASSUME NEW i \in 1..Len(pkg'[q].reports),
                    Final(pkg'[q].type, pkg'[q].reports[i])
             PROVE  IF pkg'[q].type = "CANCEL" THEN Empty(pkg[q].reports[i].bet)'
                    ELSE Settled(pkg[q].orders[i])'
  BY DEF ReportsDone, Final
<1>1. CASE pkg'[q].type = "CANCEL"
  <2>1. PICK c : c = pkg'[q].reports[i].bet
    OBVIOUS
  <2>2. Empty(c)'
    BY <1>1, <2>1
  <2> QED
    BY <1>1, <2>1, <2>2 DEF Empty
<1>2. CASE pkg'[q].type # "CANCEL"
  <2>1. PICK o : o = pkg'[q].orders[i]
    OBVIOUS
  <2>2. Settled(o)'
    BY <1>2, <2>1
  <2>3. Settled(pkg[q].orders[i])'
    BY ONLY <2>1, <2>2 DEF Settled, Waits, Unplaced, Done, Empty
  <2> QED
    BY <1>2, <2>3
<1> QED
  BY <1>1, <1>2

\* A package goes on with reports and instructions that it had.
LEMMA DonePart ==
  ASSUME TypeInv, TypeInv', Lasts, Follows, NEW q \in Package, DoneBy(pkg[q]),
         pkg'[q].type = pkg[q].type, pkg'[q].orders = pkg[q].orders,
         \A i \in 1..Len(pkg'[q].work) : \E j \in 1..Len(pkg[q].work) :
           pkg'[q].work[i] = pkg[q].work[j],
         \A i \in 1..Len(pkg'[q].instr) : \E j \in 1..Len(pkg[q].instr) :
           pkg'[q].instr[i] = pkg[q].instr[j],
         pkg'[q].reports = <<>> \/ pkg'[q].reports = pkg[q].reports
  PROVE  DoneBy(pkg[q])'
<1>0. blotter \subseteq Order /\ Len(exch) \in Nat /\ betId \in [Order -> 0..Len(exch)]
  BY DEF TypeInv, OrdersOK, ExchangeOK
<1>1. \A o : Settled(o) => Settled(o)'
  BY <1>0 DEF Settled, Lasts
<1>2. WorkDone(pkg[q])'
  <2>1. ASSUME NEW i \in 1..Len(pkg'[q].work), Final(pkg'[q].type, pkg'[q].work[i].report),
               NEW o, o = pkg'[q].work[i].order, o # NoOrder
        PROVE  Settled(o)'
    BY <1>1, <2>1 DEF DoneBy, WorkDone
  <2> QED
    BY <2>1 DEF WorkDone, Final, Settled, Waits, Unplaced, Done, Empty
<1>3. ReportsDone(pkg[q])'
  <2>0. \A i \in 1..Len(pkg'[q].reports) : pkg'[q].reports = pkg[q].reports
    OBVIOUS
  <2>1. ASSUME NEW i \in 1..Len(pkg'[q].reports), Final(pkg'[q].type, pkg'[q].reports[i]),
               NEW c, c = pkg'[q].reports[i].bet, pkg[q].type = "CANCEL"
        PROVE  Empty(c)'
    BY <2>0, <2>1, EmptyKept DEF DoneBy, ReportsDone
  <2>2. ASSUME NEW i \in 1..Len(pkg'[q].reports), Final(pkg'[q].type, pkg'[q].reports[i]),
               NEW o, o = pkg'[q].orders[i], pkg[q].type # "CANCEL"
        PROVE  Settled(o)'
    BY <1>1, <2>0, <2>2 DEF DoneBy, ReportsDone
  <2> QED
    BY <2>1, <2>2, ReportsNow
<1>4. InstrDone(pkg[q])'
  <2> SUFFICES ASSUME NEW i \in 1..Len(pkg'[q].instr), pkg'[q].type # "PLACE"
               PROVE  /\ pkg'[q].instr[i].size = 0
                      /\ pkg'[q].instr[i].bet = betId'[pkg'[q].instr[i].order]
    BY DEF InstrDone
  <2>1. PICK j \in 1..Len(pkg[q].instr) : pkg'[q].instr[i] = pkg[q].instr[j]
    OBVIOUS
  <2>2. PICK x : x = pkg[q].instr[j]
    OBVIOUS
  <2>3. x.size = 0 /\ x.bet = betId[x.order]
    BY <2>1, <2>2 DEF DoneBy, InstrDone
  <2>4. x.bet # 0
    BY <2>1, <2>2 DEF TypeInv, PackagesOK
  <2>5. x.order \in Order
    <3>1. x \in InstructionAt(Len(exch))
      BY <2>1, <2>2, PackageFields, ElementOfSeq
    <3> QED
      BY <3>1 DEF InstructionAt
  <2>6. betId'[x.order] = betId[x.order]
    BY <2>3, <2>4, <2>5 DEF Lasts
  <2> QED
    BY <2>1, <2>2, <2>3, <2>6
<1> QED
  BY <1>2, <1>3, <1>4 DEF DoneBy

LEMMA DoneIdle ==
  ASSUME NEW q \in Package, pkg'[q] = Idle
  PROVE  DoneBy(pkg[q])'
<1>1. /\ \A i \in 1..Len(pkg'[q].work) : FALSE
      /\ \A i \in 1..Len(pkg'[q].reports) : FALSE
      /\ \A i \in 1..Len(pkg'[q].instr) : FALSE
  BY DEF Idle
<1> QED
  BY <1>1 DEF DoneBy, WorkDone, ReportsDone, InstrDone

\* One thread makes a step, the others wait.
LEMMA DoneOthers ==
  ASSUME TypeInv, TypeInv', Lasts, Follows, \A q \in Package : DoneBy(pkg[q]),
         NEW p, Others(p), p \in Package => DoneBy(pkg[p])'
  PROVE  \A q \in Package : DoneBy(pkg[q])'
<1>1. ASSUME NEW q \in Package \ {p}
      PROVE  DoneBy(pkg[q])'
  <2>1. pkg'[q] = pkg[q]
    BY DEF Others
  <2>2. /\ pkg'[q].type = pkg[q].type /\ pkg'[q].orders = pkg[q].orders
        /\ \A i \in 1..Len(pkg'[q].work) : \E j \in 1..Len(pkg[q].work) :
             pkg'[q].work[i] = pkg[q].work[j]
        /\ \A i \in 1..Len(pkg'[q].instr) : \E j \in 1..Len(pkg[q].instr) :
             pkg'[q].instr[i] = pkg[q].instr[j]
        /\ pkg'[q].reports = pkg[q].reports
    BY <2>1
  <2> QED
    BY <2>2, DonePart
<1>2. ASSUME NEW q \in Package
      PROVE  DoneBy(pkg[q])'
  <2>1. CASE q = p
    BY <2>1
  <2>2. CASE q # p
    BY <1>1, <2>2
  <2> QED
    BY <2>1, <2>2
<1> QED
  BY <1>2

LEMMA DoneReport ==
  ASSUME TypeInv, TypeInv', Lasts, Follows, \A q \in Package : DoneBy(pkg[q]),
         NEW p \in Package,
         \/ EnterTrade(p) \/ ApplyReport(p) \/ PassReport(p) \/ ClearUpdateData(p)
         \/ CreateReplacement(p) \/ SettleReplacement(p) \/ ExitTrade(p) \/ ReleaseTrade(p)
  PROVE  \A q \in Package : DoneBy(pkg[q])'
<1>1. \/ NextItem(p) /\ pkg[p].work # <<>>
      \/ \E pc \in {"create", "clear", "exit", "release"} : Goto(p, pc)
      \/ \E o : TakesUp(p, "apply", o) \/ TakesUp(p, "settle", o)
  <2>1. pkg[p].pc \in {"exit", "release"} => pkg[p].work # <<>>
    BY ApplyingItem DEF Applying
  <2> QED
    BY <2>1 DEF EnterTrade, ApplyReport, PassReport, ClearUpdateData, CreateReplacement,
         SettleReplacement, ExitTrade, ReleaseTrade, TakesUp
<1>2. /\ Others(p) /\ pkg'[p].type = pkg[p].type /\ pkg'[p].orders = pkg[p].orders
      /\ pkg'[p].instr = pkg[p].instr /\ pkg'[p].reports = pkg[p].reports
      /\ pkg'[p].work = pkg[p].work
         \/ (pkg[p].work # <<>> /\ pkg'[p].work = Tail(pkg[p].work))
  <2>1. CASE NextItem(p) /\ pkg[p].work # <<>>
    BY <2>1, NextFields
  <2>2. CASE \E pc \in {"create", "clear", "exit", "release"} : Goto(p, pc)
    BY <2>2, GotoFields
  <2>3. CASE \E o : TakesUp(p, "apply", o) \/ TakesUp(p, "settle", o)
    BY <2>3, SubjectFields
  <2> QED
    BY <1>1, <2>1, <2>2, <2>3
<1>3. \A i \in 1..Len(pkg'[p].work) : \E j \in 1..Len(pkg[p].work) :
        pkg'[p].work[i] = pkg[p].work[j]
  BY <1>2, WorkTail
<1>4. \A i \in 1..Len(pkg'[p].instr) : \E j \in 1..Len(pkg[p].instr) :
        pkg'[p].instr[i] = pkg[p].instr[j]
  BY <1>2
<1>5. DoneBy(pkg[p])'
  BY <1>2, <1>3, <1>4, DonePart
<1> QED
  BY <1>2, <1>5, DoneOthers

LEMMA DoneSend ==
  ASSUME TypeInv, TypeInv', DoneInv, Lasts, Follows, NEW p \in Package, SendRequest(p)
  PROVE  \A q \in Package : DoneBy(pkg[q])'
<1>1. /\ Others(p) /\ pkg'[p].type = pkg[p].type
      /\ Len(pkg'[p].instr) = Len(LiveOrders(p))
      /\ \A i \in 1..Len(LiveOrders(p)) :
           /\ pkg'[p].instr[i].order = LiveOrders(p)[i]
           /\ pkg'[p].instr[i].bet = betId[LiveOrders(p)[i]]
           /\ pkg'[p].instr[i].size = IF pkg[p].type = "CANCEL"
                                      THEN reduction[LiveOrders(p)[i]] ELSE 0
      /\ pkg'[p].reports = <<>> /\ pkg'[p].work = pkg[p].work
  BY SendFields
<1>2. betId' = betId
  BY DEF SendRequest, orderVars
<1>3. \A i \in 1..Len(LiveOrders(p)) : reduction[LiveOrders(p)[i]] = 0
  BY LiveOrdersType DEF DoneInv
<1>4. InstrDone(pkg[p])'
  BY <1>1, <1>2, <1>3 DEF InstrDone
<1>5. ReportsDone(pkg[p])'
  <2>1. \A i \in 1..Len(pkg'[p].reports) : FALSE
    BY <1>1
  <2> QED
    BY <2>1 DEF ReportsDone
<1>6. \A o : Settled(o) => Settled(o)'
  BY DEF TypeInv, OrdersOK, Settled, Lasts
<1>7. WorkDone(pkg[p])'
  <2>1. ASSUME NEW i \in 1..Len(pkg'[p].work), Final(pkg'[p].type, pkg'[p].work[i].report),
               NEW o, o = pkg'[p].work[i].order, o # NoOrder
        PROVE  Settled(o)'
    <3>1. i \in 1..Len(pkg[p].work) /\ pkg'[p].work[i] = pkg[p].work[i]
      BY <1>1
    <3> QED
      BY <1>1, <1>6, <2>1, <3>1 DEF DoneInv, DoneBy, WorkDone
  <2> QED
    BY <2>1 DEF WorkDone, Final, Settled, Waits, Unplaced, Done, Empty
<1>8. DoneBy(pkg[p])'
  BY <1>4, <1>5, <1>7 DEF DoneBy
<1> QED
  BY <1>1, <1>8, DoneOthers DEF DoneInv

LEMMA DoneRequest ==
  ASSUME TypeInv, TypeInv', Lasts, Follows, \A q \in Package : DoneBy(pkg[q]),
         NEW p \in Package,
         AbandonRequest(p) \/ RequestError(p) \/ RequestBroken(p) \/ Finish(p)
  PROVE  \A q \in Package : DoneBy(pkg[q])'
<1>1. CASE Leave(p)
  <2>1. Others(p) /\ pkg'[p] = Idle
    BY <1>1, LeaveFields
  <2> QED
    BY <2>1, DoneIdle, DoneOthers
<1>2. CASE RequestError(p) /\ RetryLeft(p)
  <2>1. /\ Others(p) /\ pkg'[p].type = pkg[p].type /\ pkg'[p].orders = pkg[p].orders
        /\ pkg'[p].instr = <<>> /\ pkg'[p].reports = <<>> /\ pkg'[p].work = pkg[p].work
    BY <1>2, RetryFields DEF RequestError
  <2>2. /\ \A i \in 1..Len(pkg'[p].work) : \E j \in 1..Len(pkg[p].work) :
             pkg'[p].work[i] = pkg[p].work[j]
        /\ \A i \in 1..Len(pkg'[p].instr) : \E j \in 1..Len(pkg[p].instr) :
             pkg'[p].instr[i] = pkg[p].instr[j]
    BY <2>1
  <2>3. DoneBy(pkg[p])'
    BY <2>1, <2>2, DonePart
  <2> QED
    BY <2>1, <2>3, DoneOthers
<1> QED
  BY <1>1, <1>2 DEF AbandonRequest, RequestError, RetryOrGiveUp, RequestBroken, Finish

\* The reports are paired with the orders: by position, or by the bet id.
LEMMA DoneReply ==
  ASSUME TypeInv, TypeInv', TrackedInv, BetInv, Aligned, ViewInv, Lasts, Follows,
         \A q \in Package : DoneBy(pkg[q]), NEW p \in Package, Reply(p)
  PROVE  \A q \in Package : DoneBy(pkg[q])'
<1>1. /\ Others(p) /\ pkg'[p].type = pkg[p].type
      /\ pkg'[p].instr = <<>> /\ pkg'[p].reports = <<>>
      /\ pkg[p].type # "CANCEL" =>
           pkg'[p].work = Zip(LiveOrders(p), IF pkg[p].processed THEN <<>>
                                             ELSE pkg[p].reports)
  BY ReplyFields
<1>2. InstrDone(pkg[p])' /\ ReportsDone(pkg[p])'
  <2>1. /\ \A i \in 1..Len(pkg'[p].instr) : FALSE
        /\ \A i \in 1..Len(pkg'[p].reports) : FALSE
    BY <1>1
  <2> QED
    BY <2>1 DEF InstrDone, ReportsDone
<1>3. \A o : Settled(o) => Settled(o)'
  BY DEF TypeInv, OrdersOK, Settled, Lasts
<1>4. ASSUME pkg[p].type = "CANCEL", NEW i \in 1..Len(pkg'[p].work),
             Final("CANCEL", pkg'[p].work[i].report),
             NEW o, o = pkg'[p].work[i].order, o # NoOrder
      PROVE  Settled(o)
  <2>1. pkg'[p].work[i].report # Missing
    BY <1>4 DEF Final, Missing
  <2>2. PICK j \in 1..Len(pkg[p].reports) :
          /\ pkg'[p].work[i].report = pkg[p].reports[j] /\ betId[o] = pkg[p].reports[j].bet
    BY <1>4, <2>1, CancelItems
  <2>3. Empty(betId[o])
    BY <1>4, <2>2 DEF DoneBy, ReportsDone
  <2>4. o \in blotter
    <3>1. PICK k \in 1..Len(LiveOrders(p)) : o = LiveOrders(p)[k]
      BY <1>4, CancelItems
    <3>2. PICK m \in 1..Len(pkg[p].orders) : LiveOrders(p)[k] = pkg[p].orders[m]
      BY LiveFrom
    <3> QED
      BY <3>1, <3>2 DEF TrackedInv, HeldInv, HeldBy, Tracked
  <2>5. betId[o] # 0
    BY <2>3 DEF Empty, TypeInv, ExchangeOK
  <2>6. ~Waits(o)
    BY <2>4, <2>5 DEF ViewInv, PlaceInv, NoBetYet, TypeInv, OrdersOK
  <2> QED
    BY <2>3, <2>4, <2>5, <2>6 DEF Settled, Done
<1>5. ASSUME pkg[p].type \in {"PLACE", "REPLACE"}, NEW i \in 1..Len(pkg'[p].work),
             Final(pkg[p].type, pkg'[p].work[i].report)
      PROVE  Settled(pkg'[p].work[i].order)
  <2>1. PICK orders, reports : /\ orders = LiveOrders(p)
                               /\ reports = IF pkg[p].processed THEN <<>> ELSE pkg[p].reports
    OBVIOUS
  <2>2. orders \in Seq(Order) /\ reports \in Seq(ReportAt(Len(exch)))
    BY <2>1, LiveOrdersType, PackageFields
  <2>3. pkg'[p].work = Zip(orders, reports)
    BY <1>1, <1>5, <2>1
  <2>4. /\ Len(Zip(orders, reports)) \in Nat
        /\ Len(Zip(orders, reports)) <= Len(orders) /\ Len(Zip(orders, reports)) <= Len(reports)
        /\ \A n \in 1..Len(Zip(orders, reports)) :
             /\ Zip(orders, reports)[n].order = orders[n]
             /\ Zip(orders, reports)[n].report = reports[n]
    BY <2>2, ZipFields
  <2>5. i \in 1..Len(orders) /\ i \in 1..Len(reports)
    <3>1. i \in 1..Len(Zip(orders, reports)) /\ Len(orders) \in Nat /\ Len(reports) \in Nat
      BY <2>2, <2>3
    <3> QED
      BY <2>4, <3>1
  <2>6. orders = pkg[p].orders
    <3>1. orders # <<>>
      BY <2>5
    <3> QED
      BY <2>1, <3>1, LiveAligned
  <2>7. reports = pkg[p].reports
    BY <2>1, <2>5
  <2>8. pkg'[p].work[i].order = pkg[p].orders[i] /\ pkg'[p].work[i].report = pkg[p].reports[i]
    BY <2>3, <2>4, <2>6, <2>7
  <2> QED
    BY <1>5, <2>5, <2>7, <2>8 DEF DoneBy, ReportsDone
<1>6. WorkDone(pkg[p])'
  <2>1. ASSUME NEW i \in 1..Len(pkg'[p].work), Final(pkg'[p].type, pkg'[p].work[i].report),
               NEW o, o = pkg'[p].work[i].order, o # NoOrder
        PROVE  Settled(o)'
    <3>1. CASE pkg[p].type = "CANCEL"
      BY <1>1, <1>3, <1>4, <2>1, <3>1
    <3>2. CASE pkg[p].type \in {"PLACE", "REPLACE"}
      BY <1>1, <1>3, <1>5, <2>1, <3>2
    <3> QED
      BY <1>1, <2>1, <3>1, <3>2 DEF Final
  <2> QED
    BY <2>1 DEF WorkDone, Final, Settled, Waits, Unplaced, Done, Empty
<1>7. DoneBy(pkg[p])'
  BY <1>2, <1>6 DEF DoneBy
<1> QED
  BY <1>1, <1>7, DoneOthers

\* The exchange has done an instruction, and its report comes last.
LEMMA DoneAnswer ==
  ASSUME TypeInv, TypeInv', Lasts, Follows, \A q \in Package : DoneBy(pkg[q]),
         NEW p \in Package, NEW rep, Answer(p, rep), pkg[p].instr # <<>>,
         \/ rep = <<>>
         \/ \E r : /\ rep = <<r>>
                   /\ Final(pkg[p].type, r) =>
                        IF pkg[p].type = "CANCEL" THEN Empty(r.bet)'
                        ELSE \E o : o = pkg[p].orders[Len(pkg[p].reports) + 1] /\ Settled(o)'
  PROVE  \A q \in Package : DoneBy(pkg[q])'
<1>1. /\ Others(p) /\ pkg'[p].type = pkg[p].type /\ pkg'[p].orders = pkg[p].orders
      /\ pkg'[p].instr = Tail(pkg[p].instr) /\ pkg'[p].reports = pkg[p].reports \o rep
      /\ pkg'[p].work = pkg[p].work
  BY AnswerFields
<1>2. \A i \in 1..Len(pkg'[p].instr) : \E j \in 1..Len(pkg[p].instr) :
        pkg'[p].instr[i] = pkg[p].instr[j]
  BY <1>1, InstrHead
<1>3. \A i \in 1..Len(pkg'[p].work) : \E j \in 1..Len(pkg[p].work) :
        pkg'[p].work[i] = pkg[p].work[j]
  BY <1>1
<1>4. CASE rep = <<>>
  <2>1. pkg'[p].reports = pkg[p].reports
    BY <1>1, <1>4, PackageFields
  <2>2. DoneBy(pkg[p])'
    BY <1>1, <1>2, <1>3, <2>1, DonePart
  <2> QED
    BY <1>1, <2>2, DoneOthers
<1>5. CASE rep # <<>>
  <2>1. PICK r : /\ rep = <<r>>
                 /\ Final(pkg[p].type, r) =>
                      IF pkg[p].type = "CANCEL" THEN Empty(r.bet)'
                      ELSE \E o : o = pkg[p].orders[Len(pkg[p].reports) + 1] /\ Settled(o)'
    BY <1>5
  <2>2. PICK n : n = Len(pkg[p].reports)
    OBVIOUS
  <2>3. /\ n \in Nat /\ Len(pkg'[p].reports) = n + 1
        /\ \A i \in 1..n : pkg'[p].reports[i] = pkg[p].reports[i]
        /\ pkg'[p].reports[n + 1] = r
    BY <1>1, <2>1, <2>2, ReportsMore
  <2>4. \A o : Settled(o) => Settled(o)'
    BY DEF TypeInv, OrdersOK, Settled, Lasts
  <2>5. ReportsDone(pkg[p])'
    <3>1. ASSUME NEW i \in 1..(n + 1), Final(pkg'[p].type, pkg'[p].reports[i]),
                 NEW c, c = pkg'[p].reports[i].bet, pkg[p].type = "CANCEL"
          PROVE  Empty(c)'
      <4>1. CASE i = n + 1
        BY <1>1, <2>1, <2>3, <3>1, <4>1 DEF Empty
      <4>2. CASE i \in 1..n
        <5>1. Empty(c)
          BY <1>1, <2>2, <2>3, <3>1, <4>2 DEF DoneBy, ReportsDone
        <5> QED
          BY <5>1, EmptyKept
      <4> QED
        BY <2>3, <4>1, <4>2
    <3>2. ASSUME NEW i \in 1..(n + 1), Final(pkg'[p].type, pkg'[p].reports[i]),
                 NEW o, o = pkg'[p].orders[i], pkg[p].type # "CANCEL"
          PROVE  Settled(o)'
      <4>1. CASE i = n + 1
        BY <1>1, <2>1, <2>2, <2>3, <3>2, <4>1
      <4>2. CASE i \in 1..n
        BY <1>1, <2>2, <2>3, <2>4, <3>2, <4>2 DEF DoneBy, ReportsDone
      <4> QED
        BY <2>3, <4>1, <4>2
    <3> QED
      BY <1>1, <2>3, <3>1, <3>2, ReportsNow
  <2>6. WorkDone(pkg[p])'
    <3>1. ASSUME NEW i \in 1..Len(pkg'[p].work), Final(pkg'[p].type, pkg'[p].work[i].report),
                 NEW o, o = pkg'[p].work[i].order, o # NoOrder
          PROVE  Settled(o)'
      <4>1. i \in 1..Len(pkg[p].work) /\ pkg'[p].work[i] = pkg[p].work[i]
        BY <1>1
      <4> QED
        BY <1>1, <2>4, <3>1, <4>1 DEF DoneBy, WorkDone
    <3> QED
      BY <3>1 DEF WorkDone, Final, Settled, Waits, Unplaced, Done, Empty
  <2>7. InstrDone(pkg[p])'
    <3> SUFFICES ASSUME NEW i \in 1..Len(pkg'[p].instr), pkg'[p].type # "PLACE"
                 PROVE  /\ pkg'[p].instr[i].size = 0
                        /\ pkg'[p].instr[i].bet = betId'[pkg'[p].instr[i].order]
      BY DEF InstrDone
    <3>0. PICK j \in 1..Len(pkg[p].instr) : pkg'[p].instr[i] = pkg[p].instr[j]
      BY <1>2
    <3>1. PICK x : x = pkg[p].instr[j] /\ pkg'[p].instr[i] = x
      BY <3>0
    <3>2. x.size = 0 /\ x.bet = betId[x.order] /\ x.bet # 0
      BY <1>1, <3>1 DEF DoneBy, InstrDone, TypeInv, PackagesOK
    <3>3. x.order \in Order
      <4>1. x \in InstructionAt(Len(exch))
        BY <3>1, PackageFields, ElementOfSeq
      <4> QED
        BY <4>1 DEF InstructionAt
    <3>4. betId'[x.order] = betId[x.order]
      BY <3>2, <3>3 DEF Lasts
    <3> QED
      BY <3>1, <3>2, <3>4
  <2>8. DoneBy(pkg[p])'
    BY <2>5, <2>6, <2>7 DEF DoneBy
  <2> QED
    BY <1>1, <2>8, DoneOthers
<1> QED
  BY <1>4, <1>5

LEMMA DoneExchange ==
  ASSUME TypeInv, TypeInv', TrackedInv, BetInv, ViewInv, ViewInv', Lasts, Follows,
         \A q \in Package : DoneBy(pkg[q]), NEW p \in Package,
         ExchangePlace(p) \/ ExchangeCancel(p) \/ ExchangeUpdate(p) \/ ExchangeReplace(p)
  PROVE  \A q \in Package : DoneBy(pkg[q])'
<1>1. PICK x : x = Head(pkg[p].instr)
  OBVIOUS
<1>2. /\ \E type \in PackageType : Processing(p, type)
      /\ UNCHANGED <<betId, blotter>>
  BY PlaceShape, CancelShape, UpdateShape, ReplaceShape DEF PackageType, Processing, orderVars
<1>3. /\ pkg[p].pc \in {"sent", "handled"} /\ pkg[p].instr # <<>>
      /\ x = pkg[p].instr[1] /\ 1 \in 1..Len(pkg[p].instr)
  BY <1>1, <1>2, InstrHead DEF Processing
<1>4. x.order \in blotter /\ x.order \in Order
  <2>1. x.order \in blotter
    BY <1>3 DEF TrackedInv, HeldInv, HeldBy
  <2> QED
    BY <2>1 DEF TypeInv, OrdersOK
<1>5. pkg[p].type # "PLACE" => x.size = 0 /\ x.bet = betId[x.order] /\ x.bet # 0
  BY <1>3 DEF DoneBy, InstrDone, TypeInv, PackagesOK
<1>6. pkg[p].type \in {"PLACE", "REPLACE"} =>
        x.order = pkg[p].orders[Len(pkg[p].reports) + 1]
  BY <1>1, <1>3, InstrOrder
<1>7. CASE ExchangePlace(p)
  <2>1. PICK r : /\ Answer(p, <<r>>)
                 /\ r.status = "FAILURE" => exch' = exch
    <3>1. PICK r : /\ Answer(p, <<r>>)
                   /\ \/ exch' = exch
                      \/ r.status = "SUCCESS"
                      \/ r.status # "FAILURE"
      BY <1>7, PlaceShape
    <3> QED
      BY <3>1
  <2>2. pkg[p].type = "PLACE"
    BY <1>7, PlaceShape DEF Processing
  <2>3. PICK o : o = x.order
    OBVIOUS
  <2>4. NoBetYet(o) /\ ~Waits(o)'
    BY <1>1, <1>7, <2>3, PlacedOnce
  <2>5. r.status = "FAILURE" => Settled(o)'
    <3> SUFFICES ASSUME r.status = "FAILURE" PROVE Settled(o)'
      OBVIOUS
    <3>1. betId'[o] = 0 /\ \A b \in 1..Len(exch') : exch'[b].ref # o
      BY <1>2, <2>1, <2>4 DEF NoBetYet
    <3>2. Done(o)'
      BY <3>1 DEF Done
    <3> QED
      BY <1>2, <1>4, <2>3, <2>4, <3>2 DEF Settled
  <2> QED
    BY <1>3, <1>6, <2>1, <2>2, <2>3, <2>5, DoneAnswer DEF Final
<1>8. CASE ExchangeCancel(p)
  <2>1. PICK b : b = x.bet
    OBVIOUS
  <2>2. pkg[p].type = "CANCEL"
    BY <1>8, CancelShape DEF Processing
  <2>3. b \in 1..Len(exch)
    BY <1>1, <1>3, <2>1, <2>2, HeadInstruction
  <2>4. \/ Answer(p, <<>>)
        \/ \E r : Answer(p, <<r>>) /\ r.bet = b /\ (r.status = "SUCCESS" => exch'[b].left = 0)
    BY <1>1, <1>5, <1>8, <2>1, <2>2, CancelShape
  <2>5. b \in 1..Len(exch')
    BY <2>3 DEF Follows, TypeInv, ExchangeOK
  <2>6. CASE Answer(p, <<>>)
    BY <1>3, <2>6, DoneAnswer
  <2>7. ASSUME NEW r, Answer(p, <<r>>), r.bet = b, r.status = "SUCCESS" => exch'[b].left = 0
        PROVE  \A q \in Package : DoneBy(pkg[q])'
    <3>1. r.status = "SUCCESS" => Empty(r.bet)'
      BY <2>5, <2>7 DEF Empty
    <3> QED
      BY <1>3, <2>2, <2>7, <3>1, DoneAnswer DEF Final
  <2> QED
    BY <2>4, <2>6, <2>7
<1>9. CASE ExchangeUpdate(p)
  <2>1. pkg[p].type = "UPDATE" /\ \E r : Answer(p, <<r>>)
    BY <1>9, UpdateShape DEF Processing
  <2> QED
    BY <1>3, <2>1, DoneAnswer DEF Final
<1>10. CASE ExchangeReplace(p)
  <2>1. PICK b, o : b = x.bet /\ o = x.order
    OBVIOUS
  <2>2. /\ pkg[p].type = "REPLACE" /\ b \in 1..Len(exch)
        /\ \E r : Answer(p, <<r>>) /\ (r.status = "SUCCESS" => exch'[b].left = 0)
    BY <1>1, <1>10, <2>1, ReplaceShape DEF Processing
  <2>3. PICK r : Answer(p, <<r>>) /\ (r.status = "SUCCESS" => exch'[b].left = 0)
    BY <2>2
  <2>4. b \in 1..Len(exch')
    BY <2>2 DEF Follows, TypeInv, ExchangeOK
  <2>5. betId'[o] = b /\ b # 0
    BY <1>2, <1>5, <2>1, <2>2
  <2>6. ~Waits(o)'
    <3>1. o \in Order /\ ~(NoBetYet(o)')
      BY <1>4, <2>1, <2>5 DEF NoBetYet
    <3> QED
      BY <3>1 DEF ViewInv, PlaceInv
  <2>7. r.status = "SUCCESS" => Settled(o)'
    BY <1>2, <1>4, <2>1, <2>3, <2>4, <2>5, <2>6 DEF Settled, Done, Empty
  <2> QED
    BY <1>3, <1>6, <2>1, <2>2, <2>3, <2>7, DoneAnswer DEF Final
<1> QED
  BY <1>7, <1>8, <1>9, <1>10

-----------------------------------------------------------------------------
(* The statuses *)

LEMMA StatusKept ==
  ASSUME TypeInv, Lasts, StatusDone, NEW o, NEW s, status' = [status EXCEPT ![o] = s],
         s = "EXECUTION_COMPLETE" => Settled(o)'
  PROVE  StatusDone'
<1>1. ASSUME NEW x \in Order, status'[x] = "EXECUTION_COMPLETE"
      PROVE  Settled(x)'
  <2>1. CASE x = o
    BY <1>1, <2>1 DEF TypeInv, OrdersOK, Settled, Waits, Unplaced, Done, Empty
  <2>2. CASE x # o
    BY <1>1, <2>2 DEF TypeInv, OrdersOK, StatusDone, Lasts
  <2> QED
    BY <2>1, <2>2
<1> QED
  BY <1>1 DEF StatusDone

LEMMA StatusSame ==
  ASSUME Lasts, StatusDone, status' = status
  PROVE  StatusDone'
BY DEF StatusDone, Lasts

LEMMA ReductionKept ==
  ASSUME TypeInv, \A o \in Order : reduction[o] = 0,
         reduction' = reduction \/ \E o : ClearData(o)
  PROVE  \A o \in Order : reduction'[o] = 0
BY DEF ClearData, TypeInv, OrdersOK

\* A report completes an order that is settled.
LEMMA OutcomeSettled ==
  ASSUME TypeInv, DoneInv, NEW p \in Package, pkg[p].pc = "apply",
         NEW o, o = Item(p).order, Outcome(pkg[p].type, o, Item(p).report) = "EXECUTION_COMPLETE"
  PROVE  Settled(o)
<1>1. PICK r, s : r = Item(p).report /\ s = Outcome(pkg[p].type, o, r)
  OBVIOUS
<1>2. pkg[p].work # <<>> /\ o \in Order /\ o # NoOrder
  BY ApplyingItem DEF Applying
<1>3. Final(pkg[p].type, r) => Settled(o)
  BY <1>1, <1>2, ItemHead DEF DoneInv, DoneBy, WorkDone
<1>4. pkg[p].type \in PackageType
  BY PackageFields
<1>5. CASE pkg[p].type = "PLACE"
  <2>1. s = PlaceOutcome(o, r)
    BY <1>1, <1>5 DEF Outcome
  <2> QED
    BY <1>1, <1>2, <1>3, <1>5, <2>1 DEF PlaceOutcome, Final, DoneInv, StatusDone
<1>6. CASE pkg[p].type = "CANCEL"
  <2>1. s = CancelOutcome(o, r)
    BY <1>1, <1>6 DEF Outcome
  <2> QED
    BY <1>1, <1>3, <1>6, <2>1 DEF CancelOutcome, CancelCompletes, Final
<1>7. CASE pkg[p].type = "UPDATE"
  BY <1>1, <1>7 DEF Outcome
<1>8. CASE pkg[p].type = "REPLACE"
  <2>1. s = ReplaceOutcome(r)
    BY <1>1, <1>8 DEF Outcome
  <2> QED
    BY <1>1, <1>3, <1>8, <2>1 DEF ReplaceOutcome, Final
<1> QED
  BY <1>4, <1>5, <1>6, <1>7, <1>8 DEF PackageType

LEMMA StatusApply ==
  ASSUME TypeInv, TypeInv', Lasts, DoneInv, NEW p \in Package, ApplyReport(p)
  PROVE  StatusDone'
<1>1. PICK o : o = Item(p).order
  OBVIOUS
<1> DEFINE s == Outcome(pkg[p].type, o, Item(p).report)
<1>2. pkg[p].pc = "apply" /\ status' = [status EXCEPT ![o] = s]
  BY <1>1 DEF ApplyReport, UpdateStatus
<1>3. o \in Order
  BY <1>1, <1>2, ApplyingItem DEF Applying
<1>4. s = "EXECUTION_COMPLETE" => Settled(o)'
  BY <1>1, <1>2, <1>3, OutcomeSettled DEF Lasts
<1> QED
  BY <1>2, <1>4, StatusKept DEF DoneInv

\* A record that completes an order says that nothing is left.
LEMMA StatusProcess ==
  ASSUME TypeInv, TypeInv', ViewInv, DoneInv, Lasts, Follows, NEW b \in Bets,
         ProcessCurrentOrder(b)
  PROVE  StatusDone'
<1>1. PICK o, bet, s : /\ o = OrderOf(b)
                       /\ bet = IF AsyncPlace /\ betId[o] = 0 THEN b ELSE betId[o]
                       /\ s = NewStatus(o, bet, current[b])
  OBVIOUS
<1>2. /\ b \in DOMAIN current /\ exch[b].ref \in blotter /\ o # NoOrder
      /\ betId' = [betId EXCEPT ![o] = bet]
      /\ UNCHANGED <<blotter, pending, pkg, exch>>
      /\ status' = status \/ (status' = [status EXCEPT ![o] = s] /\ s # status[o])
  BY <1>1 DEF ProcessCurrentOrder, UpdateStatus
<1>3. /\ o \in blotter /\ o \in Order
      /\ \/ o = exch[b].ref /\ betId[o] \in {0, b}
         \/ betId[o] = b
  BY <1>1, <1>2, OrderOfType
<1>4. b \in 1..Len(exch) /\ b # 0 /\ exch[b].left <= current[b] /\ current[b] \in 0..Size
  <2>1. b \in 1..Len(exch) /\ current[b] \in 0..Size
    BY <1>2, RecordTypes
  <2> QED
    BY <1>2, <2>1 DEF ViewInv, RecordView, Recorded
<1>5. ASSUME s = "EXECUTION_COMPLETE", s # status[o]
      PROVE  Settled(o)'
  <2>1. current[b] = 0
    <3>1. ~(current[b] > 0)
      BY <1>1, <1>5 DEF NewStatus
    <3> QED
      BY <1>4, <3>1, BoundAssumption
  <2>2. Empty(b)
    <3>1. exch[b].left \in 0..Size
      BY <1>4, BetsType DEF TypeInv, ExchangeOK
    <3> QED
      BY <1>4, <2>1, <3>1 DEF Empty
  <2>3. Empty(b)'
    BY <2>2, EmptyKept
  <2>4. ~Waits(o)'
    <3>1. Calm
      BY <1>2 DEF Calm
    <3>2. ~NoBetYet(o)
      BY <1>3, <1>4 DEF NoBetYet
    <3>3. ~Waits(o)
      BY <1>3, <3>2 DEF ViewInv, PlaceInv
    <3> QED
      BY <3>1, <3>3, CalmWaits
  <2>5. betId'[o] = bet
    BY <1>2, <1>3 DEF TypeInv, OrdersOK
  <2>6. CASE bet = b
    BY <1>2, <1>3, <1>4, <2>3, <2>4, <2>5, <2>6 DEF Settled, Done
  <2>7. CASE bet = 0
    <3>1. betId[o] = 0 /\ exch[b].ref = o
      BY <1>1, <1>3, <1>4, <2>7
    <3>2. \A c \in 1..Len(exch) : exch[c].ref = o => c = b
      BY <1>3, <1>4, <3>1 DEF ViewInv, PlaceInv
    <3>3. \A c \in 1..Len(exch') : exch'[c].ref = o => Empty(c)'
      BY <1>2, <2>3, <3>2
    <3> QED
      BY <1>2, <1>3, <2>4, <2>5, <2>7, <3>3 DEF Settled, Done, Empty
  <2> QED
    BY <1>1, <1>3, <2>6, <2>7
<1>6. CASE status' = status
  BY <1>6, StatusSame DEF DoneInv
<1>7. CASE status' = [status EXCEPT ![o] = s] /\ s # status[o]
  BY <1>5, <1>7, StatusKept DEF DoneInv
<1> QED
  BY <1>2, <1>6, <1>7

LEMMA StatusFromCurrent ==
  ASSUME TypeInv, TypeInv', TrackedInv, ViewInv, DoneInv, Lasts, Follows, NEW b \in Bets,
         CreateOrderFromCurrent(b)
  PROVE  StatusDone'
<1>1. PICK o, s : /\ o = exch[b].ref
                  /\ s = IF current[b] > 0 THEN "EXECUTABLE" ELSE "EXECUTION_COMPLETE"
  OBVIOUS
<1>2. /\ b \in DOMAIN current /\ o \notin blotter /\ blotter' = blotter \cup {o}
      /\ betId' = [betId EXCEPT ![o] = b] /\ UNCHANGED <<pending, pkg, exch>>
      /\ status' = [status EXCEPT ![o] = s]
  BY <1>1 DEF CreateOrderFromCurrent
<1>3. /\ o \in Order /\ b \in 1..Len(exch) /\ b # 0
      /\ exch[b].left <= current[b] /\ current[b] \in 0..Size
  <2>1. o \in Order /\ b \in 1..Len(exch) /\ current[b] \in 0..Size
    BY <1>1, <1>2, RecordTypes
  <2> QED
    BY <1>2, <2>1 DEF ViewInv, RecordView, Recorded
<1>4. ASSUME s = "EXECUTION_COMPLETE"
      PROVE  Settled(o)'
  <2>1. current[b] = 0
    <3>1. ~(current[b] > 0)
      BY <1>1, <1>4
    <3> QED
      BY <1>3, <3>1, BoundAssumption
  <2>2. Empty(b)
    <3>1. exch[b].left \in 0..Size
      BY <1>3, BetsType DEF TypeInv, ExchangeOK
    <3> QED
      BY <1>3, <2>1, <3>1 DEF Empty
  <2>3. Empty(b)'
    BY <2>2, EmptyKept
  <2>4. ~Waits(o)'
    <3>1. Calm
      BY <1>2 DEF Calm
    <3> QED
      BY <1>2, <3>1, CalmWaits, WaitsTracked
  <2>5. betId'[o] = b
    BY <1>2, <1>3 DEF TypeInv, OrdersOK
  <2> QED
    BY <1>2, <1>3, <2>3, <2>4, <2>5 DEF Settled, Done
<1> QED
  BY <1>2, <1>4, StatusKept DEF DoneInv

-----------------------------------------------------------------------------
(* The steps *)

LEMMA DoneThread ==
  ASSUME TypeInv, TypeInv', TrackedInv, BetInv, Aligned, ViewInv, DoneInv, NEW p \in Package,
         \/ SendRequest(p) \/ AbandonRequest(p) \/ RequestError(p) \/ RequestBroken(p)
         \/ Reply(p) \/ EnterTrade(p) \/ Finish(p)
         \/ ApplyReport(p) \/ PassReport(p) \/ ClearUpdateData(p)
         \/ CreateReplacement(p) \/ SettleReplacement(p) \/ ExitTrade(p) \/ ReleaseTrade(p)
  PROVE  DoneInv'
<1>1. Lasts
  BY LastsThread
<1>2. exch' = exch
  BY DEF SendRequest, AbandonRequest, RequestError, RequestBroken, Reply, EnterTrade, Finish,
         ApplyReport, PassReport, ClearUpdateData, CreateReplacement, SettleReplacement,
         ExitTrade, ReleaseTrade
<1>3. Follows
  BY <1>2, SameFollows
<1>4. \A q \in Package : DoneBy(pkg[q])
  BY DEF DoneInv
<1>5. \A q \in Package : DoneBy(pkg[q])'
  BY <1>1, <1>3, <1>4, DoneSend, DoneRequest, DoneReply, DoneReport
<1>6. reduction' = reduction \/ \E o : ClearData(o)
  BY DEF SendRequest, AbandonRequest, RequestError, RequestBroken, Reply, EnterTrade, Finish,
         ApplyReport, PassReport, ClearUpdateData, CreateReplacement, SettleReplacement,
         ExitTrade, ReleaseTrade, orderVars
<1>7. \A o \in Order : reduction'[o] = 0
  BY <1>6, ReductionKept DEF DoneInv
<1>8. StatusDone'
  <2>1. CASE ApplyReport(p)
    BY <1>1, <2>1, StatusApply
  <2>2. CASE CreateReplacement(p)
    <3>1. \E n : status' = [status EXCEPT ![n] = "PENDING"]
      BY <2>2 DEF CreateReplacement
    <3> QED
      BY <1>1, <3>1, StatusKept DEF DoneInv
  <2>3. CASE SettleReplacement(p)
    <3>1. \E n : status' = [status EXCEPT ![n] = "EXECUTABLE"]
      BY <2>3 DEF SettleReplacement, UpdateStatus
    <3> QED
      BY <1>1, <3>1, StatusKept DEF DoneInv
  <2>4. CASE status' = status
    BY <1>1, <2>4, StatusSame DEF DoneInv
  <2> QED
    BY <2>1, <2>2, <2>3, <2>4
    DEF SendRequest, AbandonRequest, RequestError, RequestBroken, Reply, EnterTrade, Finish,
        PassReport, ClearUpdateData, ExitTrade, ReleaseTrade, orderVars
<1> QED
  BY <1>5, <1>7, <1>8 DEF DoneInv

\* The packages do not change.
LEMMA DoneSame ==
  ASSUME TypeInv, TypeInv', Lasts, Follows, pkg' = pkg, \A q \in Package : DoneBy(pkg[q])
  PROVE  \A q \in Package : DoneBy(pkg[q])'
<1>1. ASSUME NEW p \in Package
      PROVE  DoneBy(pkg[p])'
  <2>1. /\ pkg'[p].type = pkg[p].type /\ pkg'[p].orders = pkg[p].orders
        /\ \A i \in 1..Len(pkg'[p].work) : \E j \in 1..Len(pkg[p].work) :
             pkg'[p].work[i] = pkg[p].work[j]
        /\ \A i \in 1..Len(pkg'[p].instr) : \E j \in 1..Len(pkg[p].instr) :
             pkg'[p].instr[i] = pkg[p].instr[j]
        /\ pkg'[p].reports = pkg[p].reports
    OBVIOUS
  <2> QED
    BY <2>1, DonePart
<1> QED
  BY <1>1

\* The exchange changes no order.
LEMMA DoneAtExchange ==
  ASSUME TypeInv, TypeInv', TrackedInv, BetInv, ViewInv, ViewInv', DoneInv, NEW p \in Package,
         ExchangePlace(p) \/ ExchangeCancel(p) \/ ExchangeUpdate(p) \/ ExchangeReplace(p)
  PROVE  DoneInv'
<1>1. UNCHANGED <<status, reduction>>
  BY DEF ExchangePlace, ExchangeCancel, ExchangeUpdate, ExchangeReplace, Processing, orderVars
<1>2. Lasts /\ Follows
  BY LastsExchange
<1>3. \A q \in Package : DoneBy(pkg[q])'
  BY <1>2, DoneExchange DEF DoneInv
<1> QED
  BY <1>1, <1>2, <1>3, StatusSame DEF DoneInv

LEMMA DoneMatch ==
  ASSUME TypeInv, TypeInv', TrackedInv, DoneInv, NEW b \in Bets, ExchangeMatch(b)
  PROVE  DoneInv'
<1>1. UNCHANGED <<status, reduction, pkg>>
  BY DEF ExchangeMatch, orderVars
<1>2. Lasts /\ Follows
  BY LastsRecord
<1>3. \A q \in Package : DoneBy(pkg[q])'
  BY <1>1, <1>2, DoneSame DEF DoneInv
<1> QED
  BY <1>1, <1>2, <1>3, StatusSame DEF DoneInv

LEMMA DoneStrategy ==
  ASSUME TypeInv, TypeInv', TrackedInv, FullCancels, DoneInv,
         \/ \E o \in Order :
              \/ \E t \in Trade : CreateOrder(o, t)
              \/ CancelOrder(o) \/ UpdateOrder(o) \/ ReplaceOrder(o) \/ RejectRequest(o)
              \/ PlaceOrder(o) \/ RejectPlace(o)
         \/ NextSnapshot \/ Snap \/ \E b \in Bets : SkipCurrentOrder(b)
         \/ UNCHANGED vars
  PROVE  DoneInv'
<1>1. Lasts
  BY LastsMain
<1>2. UNCHANGED <<pkg, exch>>
  BY DEF CreateOrder, CancelOrder, UpdateOrder, ReplaceOrder, RejectRequest, Request,
         PlaceOrder, RejectPlace, NextSnapshot, Snap, SkipCurrentOrder, vars
<1>3. \A q \in Package : DoneBy(pkg[q])'
  BY <1>1, <1>2, DoneSame, SameFollows DEF DoneInv
<1>4. \A o \in Order : reduction'[o] = 0
  <2>1. ASSUME NEW o \in Order, CancelOrder(o)
        PROVE  \A x \in Order : reduction'[x] = 0
    <3>1. reduction' = [reduction EXCEPT ![o] = 0]
      BY <2>1 DEF CancelOrder, FullCancels
    <3> QED
      BY <3>1 DEF TypeInv, OrdersOK, DoneInv
  <2>2. CASE reduction' = reduction \/ \E o : ClearData(o)
    BY <2>2, ReductionKept DEF DoneInv
  <2> QED
    BY <2>1, <2>2 DEF CreateOrder, UpdateOrder, ReplaceOrder, RejectRequest, Request,
         PlaceOrder, RejectPlace, NextSnapshot, Snap, SkipCurrentOrder, vars, orderVars
<1>5. StatusDone'
  <2>1. ASSUME NEW o \in Order, NEW s, s # "EXECUTION_COMPLETE",
               status' = [status EXCEPT ![o] = s]
        PROVE  StatusDone'
    BY <1>1, <2>1, StatusKept DEF DoneInv
  <2>2. CASE status' = status
    BY <1>1, <2>2, StatusSame DEF DoneInv
  <2>3. ASSUME NEW o \in Order,
               CancelOrder(o) \/ UpdateOrder(o) \/ ReplaceOrder(o) \/ RejectRequest(o)
        PROVE  StatusDone'
    <3>1. \E s : s # "EXECUTION_COMPLETE" /\ status' = [status EXCEPT ![o] = s]
      BY <2>3 DEF CancelOrder, UpdateOrder, ReplaceOrder, RejectRequest, Accept, Requested,
           UpdateStatus
    <3> QED
      BY <2>1, <3>1
  <2>4. ASSUME NEW o \in Order, PlaceOrder(o) \/ RejectPlace(o) \/ \E t \in Trade : CreateOrder(o, t)
        PROVE  StatusDone'
    <3>1. \E s : s # "EXECUTION_COMPLETE" /\ status' = [status EXCEPT ![o] = s]
      BY <2>4 DEF PlaceOrder, RejectPlace, CreateOrder, UpdateStatus
    <3> QED
      BY <2>1, <3>1
  <2> QED
    BY <2>2, <2>3, <2>4 DEF NextSnapshot, Snap, SkipCurrentOrder, vars, orderVars
<1> QED
  BY <1>3, <1>4, <1>5 DEF DoneInv

LEMMA DoneExecute ==
  ASSUME TypeInv, TypeInv', TrackedInv, DoneInv, NEW i \in 1..4, Execute(i)
  PROVE  DoneInv'
<1>1. Lasts /\ Follows /\ UNCHANGED <<status, reduction>>
  BY LastsMain, SameFollows DEF Execute, orderVars
<1>2. PICK p \in Package :
        Others(p) /\ pkg'[p].instr = <<>> /\ pkg'[p].reports = <<>> /\ pkg'[p].work = <<>>
  BY ExecuteFields
<1>3. /\ \A j \in 1..Len(pkg'[p].instr) : FALSE
      /\ \A j \in 1..Len(pkg'[p].reports) : FALSE
      /\ \A j \in 1..Len(pkg'[p].work) : FALSE
  BY <1>2
<1>4. DoneBy(pkg[p])'
  BY <1>3 DEF DoneBy, WorkDone, ReportsDone, InstrDone
<1>5. \A q \in Package : DoneBy(pkg[q])'
  BY <1>1, <1>2, <1>4, DoneOthers DEF DoneInv
<1> QED
  BY <1>1, <1>5, StatusSame DEF DoneInv

LEMMA DoneRecord ==
  ASSUME TypeInv, TypeInv', TrackedInv, ViewInv, DoneInv, NEW b \in Bets,
         ProcessCurrentOrder(b) \/ CreateOrderFromCurrent(b)
  PROVE  DoneInv'
<1>1. Lasts /\ Follows
  BY LastsRecord
<1>2. UNCHANGED <<pkg, exch>> /\ (reduction' = reduction \/ \E o : ClearData(o))
  BY DEF ProcessCurrentOrder, CreateOrderFromCurrent
<1>3. \A q \in Package : DoneBy(pkg[q])'
  BY <1>1, <1>2, DoneSame DEF DoneInv
<1>4. \A o \in Order : reduction'[o] = 0
  BY <1>2, ReductionKept DEF DoneInv
<1>5. StatusDone'
  BY <1>1, StatusProcess, StatusFromCurrent
<1> QED
  BY <1>3, <1>4, <1>5 DEF DoneInv

LEMMA DoneRestart ==
  ASSUME Restart
  PROVE  DoneInv'
<1>1. /\ \A o \in Order : reduction'[o] = 0 /\ status'[o] = "None"
      /\ \A p \in Package : pkg'[p] = Idle
  BY DEF Restart
<1>2. \A p \in Package : DoneBy(pkg[p])'
  BY <1>1, DoneIdle
<1> QED
  BY <1>1, <1>2 DEF DoneInv, StatusDone

LEMMA DoneInit ==
  ASSUME Init
  PROVE  DoneInv
<1>1. /\ \A o \in Order : reduction[o] = 0 /\ status[o] = "None"
      /\ \A p \in Package : pkg[p].work = <<>> /\ pkg[p].reports = <<>> /\ pkg[p].instr = <<>>
  BY DEF Init, Idle
<1>2. \A p \in Package : /\ \A i \in 1..Len(pkg[p].work) : FALSE
                         /\ \A i \in 1..Len(pkg[p].reports) : FALSE
                         /\ \A i \in 1..Len(pkg[p].instr) : FALSE
  BY <1>1
<1> QED
  BY <1>1, <1>2 DEF DoneInv, StatusDone, DoneBy, WorkDone, ReportsDone, InstrDone

LEMMA DoneNext ==
  ASSUME TypeInv, TypeInv', TrackedInv, BetInv, Aligned, ViewInv, ViewInv', FullCancels,
         DoneInv, [Next]_vars
  PROVE  DoneInv'
<1>1. CASE \/ Strategy \/ \E o \in Order : PlaceOrder(o) \/ RejectPlace(o)
           \/ NextSnapshot \/ Snap \/ \E b \in Bets : SkipCurrentOrder(b)
           \/ UNCHANGED vars
  BY <1>1, DoneStrategy DEF Strategy
<1>2. ASSUME NEW i \in 1..4, Execute(i)
      PROVE  DoneInv'
  BY <1>2, DoneExecute
<1>3. ASSUME NEW b \in Bets, ProcessCurrentOrder(b) \/ CreateOrderFromCurrent(b)
      PROVE  DoneInv'
  BY <1>3, DoneRecord
<1>4. CASE Restart
  BY <1>4, DoneRestart
<1>5. ASSUME NEW p \in Package, Thread(p) \/ RequestError(p) \/ RequestBroken(p)
      PROVE  DoneInv'
  BY <1>5, DoneThread, DoneAtExchange DEF Thread
<1>6. ASSUME NEW b \in Bets, ExchangeMatch(b)
      PROVE  DoneInv'
  BY <1>6, DoneMatch
<1> QED
  BY <1>1, <1>2, <1>3, <1>4, <1>5, <1>6 DEF Next, Main

-----------------------------------------------------------------------------
(* The theorem *)

\* An order is EXECUTION_COMPLETE only when nothing of its bet is left at the exchange
\* (CompleteIsDone), when cancels are for the whole order: process_current_order,
\* execute_place, execute_cancel and execute_replace complete orders from snapshots and
\* reports that may be out of date, and what they say is over stays over.
THEOREM CompleteIsDoneSafe == Aligned /\ FullCancels => (Spec => []CompleteIsDone)
<1> DEFINE Inv == TypeInv /\ TrackedInv /\ BetInv /\ ViewInv /\ DoneInv
<1>1. Init => Inv
  <2> SUFFICES ASSUME Init PROVE Inv
    OBVIOUS
  <2>1. TypeInv /\ TrackedInv /\ BetInv
    BY TypeInit, TrackedInit, BetNothing DEF Init
  <2>2. \A b \in 1..Len(exch) : FALSE
    BY DEF Init
  <2>3. ViewInv
    BY <2>2, ViewNothing DEF Init
  <2> QED
    BY <2>1, <2>3, DoneInit
<1>2. ASSUME Aligned, FullCancels
      PROVE  Inv /\ [Next]_vars => Inv'
  BY <1>2, TypeStep, TrackedNext, BetNext, ViewNext, DoneNext
<1>3. Inv => CompleteIsDone
  BY DEF DoneInv, StatusDone, Settled, Done, Empty, CompleteIsDone, Left
<1> HIDE DEF Inv
<1>4. CASE Aligned /\ FullCancels
  BY <1>1, <1>2, <1>3, <1>4, PTL DEF Spec
<1> QED
  BY <1>4

-----------------------------------------------------------------------------
(* The inductive invariant of waiting orders *)

\* Without replaces: create_replace_instruction pops what executable(), running in
\* another thread, may have cleared, and PendingHasRequest does not hold.
NoReplaces == "REPLACE" \notin Kinds

\* The package still has to send the order, or to apply a report to it.
Holds(k, o) ==
  \/ k.pc \in {"queued", "sent", "handled"} /\ \E i \in 1..Len(k.orders) : k.orders[i] = o
  \/ k.pc \in {"next", "apply"} /\ \E i \in 1..Len(k.work) : k.work[i].order = o
  \/ k.pc \in {"clear", "exit", "release"} /\ \E i \in 2..Len(k.work) : k.work[i].order = o
\* A request of the type is still to be answered for the order.
Expected(o, type) ==
  \/ o \in gaveUp
  \/ \E i \in 1..Len(pending[type]) : pending[type][i] = o
  \/ \E p \in Package : pkg[p].type = type /\ Holds(pkg[p], o)
\* The thread has given the order its bet, and goes on to make it executable.
Placing(k, o) ==
  /\ k.type = "PLACE" /\ k.pc = "apply"
  /\ k.work[1].order = o /\ k.work[1].report.bet # 0
WaitOf(o) ==
  /\ status[o] = "PENDING" =>
       /\ Expected(o, "PLACE") \/ (AsyncPlace /\ betId[o] = 0)
       /\ betId[o] # 0 => o \in gaveUp \/ \E p \in Package : Placing(pkg[p], o)
  /\ status[o] = "CANCELLING" => Expected(o, "CANCEL")
  /\ status[o] = "UPDATING" => Expected(o, "UPDATE")
  /\ status[o] # "REPLACING"

\* Only an order that was placed has a bet; without one it failed, or that is not known
\* or not yet known.
PlaceReport(r) ==
  /\ r.bet # 0 => r.status = "SUCCESS"
  /\ r.bet = 0 => r.status \in {"FAILURE", "TIMEOUT"} \/ (AsyncPlace /\ r.status = "SUCCESS")
\* The package has the order of bet b.
BetOf(k, b) == \E j \in 1..Len(k.orders) : betId[k.orders[j]] = b
\* Every order of the package gets a report: by position, or by its bet id.
AnswersBy(k) ==
  /\ k.type # "REPLACE" /\ k.pc \notin {"create", "settle"}
  /\ k.type = "UPDATE" /\ k.pc \in {"sent", "handled"} =>
       Len(k.reports) + Len(k.instr) = Len(k.orders)
  /\ k.type = "PLACE" =>
       /\ \A i \in 1..Len(k.reports) : PlaceReport(k.reports[i])
       /\ \A i \in 1..Len(k.work) : PlaceReport(k.work[i].report)
  /\ k.type = "CANCEL" =>
       /\ \A i \in 1..Len(k.instr) : BetOf(k, k.instr[i].bet)
       /\ \A i \in 1..Len(k.reports) : BetOf(k, k.reports[i].bet)
  /\ \/ \A i \in 1..Len(k.work) : k.work[i].order # NoOrder
     \/ \A i \in 1..Len(k.work) : k.work[i].order = NoOrder

WaitInv ==
  /\ pending["REPLACE"] = <<>>
  /\ \A o \in Order : WaitOf(o)
  /\ \A p \in Package : AnswersBy(pkg[p])

-----------------------------------------------------------------------------
(* What the steps have in common *)

\* The request that an order with a status waits for
Match(type, s) ==
  \/ type = "PLACE" /\ s = "PENDING"
  \/ type = "CANCEL" /\ s = "CANCELLING"
  \/ type = "UPDATE" /\ s = "UPDATING"

\* Nothing new is waited for, and what is expected remains so.
LEMMA WaitKept ==
  ASSUME NEW o \in Order, WaitOf(o), status'[o] = status[o] \/ status'[o] \notin Awaiting,
         status'[o] \in Awaiting =>
           /\ \A type \in PackageType : Match(type, status[o]) /\ Expected(o, type) =>
                Expected(o, type)'
           /\ status[o] = "PENDING" => betId'[o] = betId[o]
           /\ o \in gaveUp => o \in gaveUp'
           /\ \A p \in Package : Placing(pkg[p], o) => Placing(pkg'[p], o)
  PROVE  WaitOf(o)'
<1>1. status'[o] \notin Awaiting => WaitOf(o)'
  BY DEF WaitOf, Awaiting
<1>2. CASE status'[o] \in Awaiting
  <2>1. status'[o] = status[o] /\ status[o] # "REPLACING"
    BY <1>2 DEF WaitOf
  <2>2. CASE status[o] = "PENDING"
    <3>1. Expected(o, "PLACE") => Expected(o, "PLACE")'
      BY <1>2, <2>2 DEF Match, PackageType
    <3>2. betId'[o] = betId[o]
      BY <1>2, <2>2
    <3>3. betId[o] # 0 => o \in gaveUp' \/ \E p \in Package : Placing(pkg'[p], o)
      BY <1>2, <2>2 DEF WaitOf
    <3>4. Expected(o, "PLACE") \/ (AsyncPlace /\ betId[o] = 0)
      BY <2>2 DEF WaitOf
    <3>5. betId'[o] # 0 => o \in gaveUp' \/ \E p \in Package : Placing(pkg[p], o)'
      BY <3>2, <3>3 DEF Placing
    <3>6. Expected(o, "PLACE")' \/ (AsyncPlace /\ betId'[o] = 0)
      BY <3>1, <3>2, <3>4
    <3> QED
      BY <2>1, <2>2, <3>5, <3>6 DEF WaitOf
  <2>3. CASE status[o] = "CANCELLING"
    <3>1. Expected(o, "CANCEL")'
      BY <1>2, <2>3 DEF Match, PackageType, WaitOf
    <3> QED
      BY <2>1, <2>3, <3>1 DEF WaitOf
  <2>4. CASE status[o] = "UPDATING"
    <3>1. Expected(o, "UPDATE")'
      BY <1>2, <2>4 DEF Match, PackageType, WaitOf
    <3> QED
      BY <2>1, <2>4, <3>1 DEF WaitOf
  <2> QED
    BY <1>2, <2>1, <2>2, <2>3, <2>4 DEF Awaiting
<1> QED
  BY <1>1, <1>2

\* A thread's step: what its package held it holds on to, or gives up.
LEMMA WaitThread ==
  ASSUME TypeInv, TypeInv', \A o \in Order : WaitOf(o), NEW p \in Package, Others(p),
         UNCHANGED pending, gaveUp \subseteq gaveUp',
         \A o \in Order : status'[o] = status[o] \/ status'[o] \notin Awaiting,
         \A o \in Order : status'[o] \in Awaiting =>
           /\ betId'[o] = betId[o] \/ Placing(pkg'[p], o)
           /\ Match(pkg[p].type, status[o]) /\ Holds(pkg[p], o) =>
                \/ o \in gaveUp'
                \/ pkg'[p].type = pkg[p].type /\ Holds(pkg'[p], o)
                \/ AsyncPlace /\ status[o] = "PENDING" /\ betId'[o] = 0
                \/ status[o] = "PENDING" /\ \E q \in Package \ {p} : Placing(pkg[q], o)
           /\ Placing(pkg[p], o) => o \in gaveUp' \/ Placing(pkg'[p], o)
  PROVE  \A o \in Order : WaitOf(o)'
<1> SUFFICES ASSUME NEW o \in Order PROVE WaitOf(o)'
  OBVIOUS
<1>1. status'[o] \notin Awaiting => WaitOf(o)'
  BY DEF WaitOf, Awaiting
<1>2. CASE status'[o] \in Awaiting
  <2>1. status'[o] = status[o] /\ status[o] # "REPLACING"
    BY <1>2 DEF WaitOf
  <2>2. \A q \in Package : Placing(pkg[q], o) =>
          o \in gaveUp' \/ \E r \in Package : Placing(pkg'[r], o)
    BY <1>2 DEF Others
  <2>3. \A q \in Package : Placing(pkg'[q], o) =>
          pkg'[q].type = "PLACE" /\ Holds(pkg'[q], o)
    <3>1. ASSUME NEW q \in Package, Placing(pkg'[q], o)
          PROVE  pkg'[q].type = "PLACE" /\ Holds(pkg'[q], o)
      <4>1. pkg'[q].type = "PLACE" /\ pkg'[q].pc = "apply" /\ pkg'[q].work[1].order = o
        BY <3>1 DEF Placing
      <4>2. pkg'[q].work # <<>> /\ pkg'[q].work \in Seq(WorkAt(Len(exch')))
        BY <4>1 DEF TypeInv, PackagesOK, Applying, HeadOK, PackageAt
      <4>3. 1 \in 1..Len(pkg'[q].work)
        BY <4>2
      <4> QED
        BY <4>1, <4>3 DEF Holds
    <3> QED
      BY <3>1
  <2>4. ASSUME NEW type \in PackageType, Match(type, status[o]), Expected(o, type)
        PROVE  Expected(o, type)' \/ (AsyncPlace /\ status[o] = "PENDING" /\ betId'[o] = 0)
    <3>1. CASE o \in gaveUp
      BY <3>1 DEF Expected
    <3>2. CASE \E i \in 1..Len(pending[type]) : pending[type][i] = o
      BY <3>2 DEF Expected
    <3>3. ASSUME NEW q \in Package \ {p}, pkg[q].type = type, Holds(pkg[q], o)
          PROVE  Expected(o, type)'
      <4>1. pkg'[q] = pkg[q]
        BY DEF Others
      <4> QED
        BY <3>3, <4>1 DEF Expected, Holds
    <3>4. CASE pkg[p].type = type /\ Holds(pkg[p], o)
      <4>1. CASE o \in gaveUp'
        BY <4>1 DEF Expected
      <4>2. CASE pkg'[p].type = pkg[p].type /\ Holds(pkg'[p], o)
        BY <3>4, <4>2 DEF Expected, Holds
      <4>3. ASSUME NEW q \in Package \ {p}, Placing(pkg[q], o), status[o] = "PENDING"
            PROVE  Expected(o, type)'
        <5>1. pkg'[q] = pkg[q]
          BY DEF Others
        <5>2. pkg'[q].type = "PLACE" /\ Holds(pkg'[q], o)
          BY <2>3, <4>3, <5>1
        <5>3. type = "PLACE"
          BY <2>4, <4>3 DEF Match
        <5> QED
          BY <5>2, <5>3 DEF Expected, Holds
      <4> QED
        BY <1>2, <2>4, <3>4, <4>1, <4>2, <4>3
    <3> QED
      BY <2>4, <3>1, <3>2, <3>3, <3>4 DEF Expected
  <2>5. CASE status[o] = "PENDING"
    <3>1. betId'[o] = betId[o] \/ Placing(pkg'[p], o)
      BY <1>2
    <3>2. betId'[o] # 0 => o \in gaveUp' \/ \E q \in Package : Placing(pkg'[q], o)
      <4>1. betId[o] # 0 => o \in gaveUp \/ \E q \in Package : Placing(pkg[q], o)
        BY <2>5 DEF WaitOf
      <4> QED
        BY <2>2, <3>1, <4>1
    <3>3. Expected(o, "PLACE")' \/ (AsyncPlace /\ betId'[o] = 0)
      <4>1. CASE Placing(pkg'[p], o)
        <5>1. pkg'[p].type = "PLACE" /\ Holds(pkg'[p], o)
          BY <2>3, <4>1
        <5> QED
          BY <5>1 DEF Expected, Holds
      <4>2. CASE betId'[o] = betId[o]
        <5>1. Expected(o, "PLACE") \/ (AsyncPlace /\ betId[o] = 0)
          BY <2>5 DEF WaitOf
        <5>2. Match("PLACE", status[o]) /\ "PLACE" \in PackageType
          BY <2>5 DEF Match, PackageType
        <5> QED
          BY <2>4, <4>2, <5>1, <5>2
      <4> QED
        BY <3>1, <4>1, <4>2
    <3>4. betId'[o] # 0 => o \in gaveUp' \/ \E q \in Package : Placing(pkg[q], o)'
      BY <3>2 DEF Placing
    <3> QED
      BY <2>1, <2>5, <3>3, <3>4 DEF WaitOf
  <2>6. CASE status[o] = "CANCELLING"
    <3>1. Expected(o, "CANCEL")'
      BY <2>4, <2>6 DEF Match, PackageType, WaitOf
    <3> QED
      BY <2>1, <2>6, <3>1 DEF WaitOf
  <2>7. CASE status[o] = "UPDATING"
    <3>1. Expected(o, "UPDATE")'
      BY <2>4, <2>7 DEF Match, PackageType, WaitOf
    <3> QED
      BY <2>1, <2>7, <3>1 DEF WaitOf
  <2> QED
    BY <1>2, <2>1, <2>5, <2>6, <2>7 DEF Awaiting
<1> QED
  BY <1>1, <1>2

\* What a cancel names remains the bet of an order of the package.
LEMMA BetOfKept ==
  ASSUME TypeInv, Lasts, NEW q \in Package, pkg[q].type = "CANCEL",
         pkg'[q].orders = pkg[q].orders, NEW b, BetOf(pkg[q], b)
  PROVE  BetOf(pkg[q], b)'
<1>1. PICK j \in 1..Len(pkg[q].orders) : betId[pkg[q].orders[j]] = b
  BY DEF BetOf
<1>2. pkg[q].orders \in Seq(Order) /\ betId[pkg[q].orders[j]] # 0
  BY PackageFields
<1>3. pkg[q].orders[j] \in Order
  BY <1>2, ElementOfSeq
<1>4. betId'[pkg[q].orders[j]] = b
  BY <1>1, <1>2, <1>3 DEF Lasts
<1> QED
  BY <1>4 DEF BetOf

\* A package goes on with reports and instructions that it had.
LEMMA AnswersPart ==
  ASSUME TypeInv, Lasts, NEW q \in Package, AnswersBy(pkg[q]),
         pkg'[q].type = pkg[q].type, pkg'[q].orders = pkg[q].orders,
         pkg'[q].pc \notin {"create", "settle"},
         pkg[q].type = "UPDATE" /\ pkg'[q].pc \in {"sent", "handled"} =>
           Len(pkg'[q].reports) + Len(pkg'[q].instr) = Len(pkg'[q].orders),
         \A i \in 1..Len(pkg'[q].work) : \E j \in 1..Len(pkg[q].work) :
           pkg'[q].work[i] = pkg[q].work[j],
         \A i \in 1..Len(pkg'[q].instr) : \E j \in 1..Len(pkg[q].instr) :
           pkg'[q].instr[i] = pkg[q].instr[j],
         pkg'[q].reports = <<>> \/ pkg'[q].reports = pkg[q].reports
  PROVE  AnswersBy(pkg[q])'
<1>1. pkg[q].type = "CANCEL" =>
        /\ \A i \in 1..Len(pkg'[q].instr) : BetOf(pkg[q], pkg'[q].instr[i].bet)
        /\ \A i \in 1..Len(pkg'[q].reports) : BetOf(pkg[q], pkg'[q].reports[i].bet)
  <2>1. pkg[q].type = "CANCEL" =>
          /\ \A i \in 1..Len(pkg[q].instr) : BetOf(pkg[q], pkg[q].instr[i].bet)
          /\ \A i \in 1..Len(pkg[q].reports) : BetOf(pkg[q], pkg[q].reports[i].bet)
    BY DEF AnswersBy
  <2>2. \A i \in 1..Len(pkg'[q].reports) :
          i \in 1..Len(pkg[q].reports) /\ pkg'[q].reports[i] = pkg[q].reports[i]
    OBVIOUS
  <2> QED
    BY <2>1, <2>2
<1>2. pkg[q].type = "CANCEL" =>
        /\ \A i \in 1..Len(pkg'[q].instr) : \E j \in 1..Len(pkg'[q].orders) :
             betId'[pkg'[q].orders[j]] = pkg'[q].instr[i].bet
        /\ \A i \in 1..Len(pkg'[q].reports) : \E j \in 1..Len(pkg'[q].orders) :
             betId'[pkg'[q].orders[j]] = pkg'[q].reports[i].bet
  <2>1. ASSUME NEW b, BetOf(pkg[q], b), pkg[q].type = "CANCEL"
        PROVE  \E j \in 1..Len(pkg'[q].orders) : betId'[pkg'[q].orders[j]] = b
    BY <2>1, BetOfKept DEF BetOf
  <2> QED
    BY <1>1, <2>1
<1>3. pkg[q].type = "PLACE" =>
        /\ \A i \in 1..Len(pkg'[q].reports) : PlaceReport(pkg'[q].reports[i])
        /\ \A i \in 1..Len(pkg'[q].work) : PlaceReport(pkg'[q].work[i].report)
  BY DEF AnswersBy
<1>4. \/ \A i \in 1..Len(pkg'[q].work) : pkg'[q].work[i].order # NoOrder
      \/ \A i \in 1..Len(pkg'[q].work) : pkg'[q].work[i].order = NoOrder
  BY DEF AnswersBy
<1> QED
  BY <1>2, <1>3, <1>4 DEF AnswersBy, PlaceReport, BetOf

LEMMA AnswersIdle ==
  ASSUME NEW q \in Package, pkg'[q] = Idle
  PROVE  AnswersBy(pkg[q])'
<1>1. /\ pkg'[q].type = "PLACE" /\ pkg'[q].pc = "free"
      /\ \A i \in 1..Len(pkg'[q].work) : FALSE
      /\ \A i \in 1..Len(pkg'[q].reports) : FALSE
  BY DEF Idle
<1> QED
  BY <1>1 DEF AnswersBy

\* One thread makes a step, the others wait.
LEMMA AnswersOthers ==
  ASSUME TypeInv, Lasts, \A q \in Package : AnswersBy(pkg[q]),
         NEW p, Others(p), p \in Package => AnswersBy(pkg[p])'
  PROVE  \A q \in Package : AnswersBy(pkg[q])'
<1>1. ASSUME NEW q \in Package \ {p}
      PROVE  AnswersBy(pkg[q])'
  <2>1. pkg'[q] = pkg[q]
    BY DEF Others
  <2>2. AnswersBy(pkg[q])
    OBVIOUS
  <2> QED
    BY <2>1, <2>2, AnswersPart DEF AnswersBy
<1> QED
  BY <1>1

-----------------------------------------------------------------------------
(* The steps of the threads *)

\* The orders that are read: all, or none because all are violations
LEMMA LiveOrNone ==
  ASSUME TypeInv, TrackedInv, Aligned, NEW p \in Package
  PROVE  \/ LiveOrders(p) = pkg[p].orders
         \/ LiveOrders(p) = <<>> /\ \A i \in 1..Len(pkg[p].orders) :
                                      status[pkg[p].orders[i]] = "VIOLATION"
<1>1. LiveOrders(p) \in {pkg[p].orders, <<>>}
  BY LiveAligned
<1>2. ASSUME LiveOrders(p) = <<>>, NEW i \in 1..Len(pkg[p].orders),
             status[pkg[p].orders[i]] # "VIOLATION"
      PROVE  FALSE
  <2> DEFINE S == {o \in Order : status[o] # "VIOLATION"}
  <2>1. pkg[p].orders \in Seq(Order) /\ pkg[p].orders[i] \in S
    BY <1>2, PackageFields, ElementOfSeq
  <2>2. LiveOrders(p) = Select(pkg[p].orders, S)
    BY DEF LiveOrders
  <2> HIDE DEF S
  <2>3. \E n \in 1..Len(Select(pkg[p].orders, S)) : TRUE
    BY <2>1, SelectKeeps
  <2> QED
    BY <1>2, <2>2, <2>3
<1> QED
  BY <1>1, <1>2

LEMMA WaitSend ==
  ASSUME TypeInv, TypeInv', TrackedInv, BetInv, Aligned, Lasts, WaitInv, NEW p \in Package,
         SendRequest(p)
  PROVE  WaitInv'
<1>1. /\ pkg[p].pc = "queued" /\ LiveOrders(p) # <<>>
      /\ UNCHANGED <<status, betId, pending, gaveUp>>
  BY DEF SendRequest, orderVars, mainVars
<1>2. LiveOrders(p) = pkg[p].orders
  BY <1>1, LiveOrNone
<1>3. /\ Others(p)
      /\ pkg'[p].pc = "sent" /\ pkg'[p].type = pkg[p].type
      /\ pkg'[p].orders = pkg[p].orders /\ pkg'[p].processed = pkg[p].processed
      /\ Len(pkg'[p].instr) = Len(LiveOrders(p))
      /\ \A i \in 1..Len(LiveOrders(p)) : pkg'[p].instr[i].bet = betId[LiveOrders(p)[i]]
      /\ pkg'[p].reports = <<>> /\ pkg'[p].work = pkg[p].work
  BY SendFields
<1>4. AnswersBy(pkg[p])'
  <2>1. AnswersBy(pkg[p]) /\ Len(pkg[p].orders) \in Nat
    BY PackageFields DEF WaitInv
  <2>2. Len(pkg'[p].reports) + Len(pkg'[p].instr) = Len(pkg'[p].orders)
    BY <1>2, <1>3, <2>1
  <2>3. \A i \in 1..Len(pkg'[p].instr) : \E j \in 1..Len(pkg'[p].orders) :
          betId'[pkg'[p].orders[j]] = pkg'[p].instr[i].bet
    BY <1>1, <1>2, <1>3
  <2>4. \A i \in 1..Len(pkg'[p].reports) : FALSE
    BY <1>3
  <2> QED
    BY <1>3, <2>1, <2>2, <2>3, <2>4 DEF AnswersBy, PlaceReport, BetOf
<1>5. \A q \in Package : AnswersBy(pkg[q])'
  BY <1>3, <1>4, AnswersOthers DEF WaitInv
<1>6. \A o \in Order : Holds(pkg[p], o) => Holds(pkg'[p], o)
  BY <1>1, <1>3 DEF Holds
<1>7. \A o \in Order : ~Placing(pkg[p], o)
  BY <1>1 DEF Placing
<1>8. \A o \in Order : WaitOf(o)'
  BY <1>1, <1>3, <1>6, <1>7, WaitThread DEF WaitInv
<1> QED
  BY <1>1, <1>5, <1>8 DEF WaitInv

\* The request is given up, or there is nothing left to do.
LEMMA WaitLeave ==
  ASSUME TypeInv, TypeInv', Lasts, WaitInv, NEW p \in Package, Leave(p),
         UNCHANGED <<status, betId, pending>>, gaveUp \subseteq gaveUp',
         \A o \in Order : status[o] \in Awaiting =>
           ~Placing(pkg[p], o) /\ (Holds(pkg[p], o) => o \in gaveUp')
  PROVE  WaitInv'
<1>1. Others(p) /\ pkg'[p] = Idle
  BY LeaveFields
<1>2. \A q \in Package : AnswersBy(pkg[q])'
  BY <1>1, AnswersIdle, AnswersOthers DEF WaitInv
<1>3. \A o \in Order : WaitOf(o)'
  BY <1>1, WaitThread DEF WaitInv
<1> QED
  BY <1>2, <1>3 DEF WaitInv

LEMMA WaitRequest ==
  ASSUME TypeInv, TypeInv', TrackedInv, BetInv, Aligned, Lasts, WaitInv, NEW p \in Package,
         AbandonRequest(p) \/ RequestError(p) \/ RequestBroken(p) \/ Finish(p)
  PROVE  WaitInv'
<1>0. UNCHANGED <<status, betId, pending>>
  BY DEF AbandonRequest, RequestError, RequestBroken, Finish, orderVars, mainVars
<1>1. AnswersBy(pkg[p]) /\ pkg[p].orders \in Seq(Order)
  BY PackageFields DEF WaitInv
<1>2. \A o \in Order : pkg[p].pc # "apply" => ~Placing(pkg[p], o)
  BY DEF Placing
<1>3. CASE AbandonRequest(p)
  <2>1. pkg[p].pc = "queued" /\ LiveOrders(p) = <<>> /\ Leave(p) /\ gaveUp' = gaveUp
    BY <1>1, <1>3 DEF AbandonRequest, NoPrice, AnswersBy
  <2>2. \A i \in 1..Len(pkg[p].orders) : status[pkg[p].orders[i]] = "VIOLATION"
    BY <2>1, LiveOrNone
  <2>3. \A o \in Order : Holds(pkg[p], o) => status[o] \notin Awaiting
    BY <2>1, <2>2 DEF Holds, Awaiting
  <2> QED
    BY <1>0, <1>2, <2>1, <2>3, WaitLeave
<1>4. CASE Finish(p)
  <2>1. /\ pkg[p].pc = "next" /\ Leave(p) /\ gaveUp' = gaveUp
        /\ pkg[p].work # <<>> => Item(p).order = NoOrder
    BY <1>4 DEF Finish
  <2>2. \A i \in 1..Len(pkg[p].work) : pkg[p].work[i].order = NoOrder
    <3>1. CASE pkg[p].work = <<>>
      BY <3>1
    <3>2. CASE pkg[p].work # <<>>
      <4>1. pkg[p].work[1].order = NoOrder /\ 1 \in 1..Len(pkg[p].work)
        BY <2>1, <3>2, ItemHead
      <4> QED
        BY <1>1, <4>1 DEF AnswersBy
    <3> QED
      BY <3>1, <3>2
  <2>3. \A o \in Order : ~Holds(pkg[p], o)
    BY <2>1, <2>2, OrderAssumption DEF Holds
  <2> QED
    BY <1>0, <1>2, <2>1, <2>3, WaitLeave
<1>5. CASE (RequestError(p) \/ RequestBroken(p)) /\ Leave(p)
           /\ gaveUp' = gaveUp \cup Range(pkg[p].orders)
  <2>1. pkg[p].pc \in {"sent", "handled"}
    BY <1>5 DEF RequestError, RequestBroken, SeenAll, SeenNothing
  <2>2. \A o \in Order : Holds(pkg[p], o) => o \in Range(pkg[p].orders)
    BY <1>1, <2>1 DEF Holds, Range
  <2> QED
    BY <1>0, <1>2, <1>5, <2>1, <2>2, WaitLeave
<1>6. CASE RequestError(p) /\ RetryLeft(p)
  <2>1. pkg[p].pc \in {"sent", "handled"} /\ gaveUp' = gaveUp /\ RetryOrGiveUp(p)
    BY <1>6 DEF RequestError, RetryOrGiveUp, SeenAll, SeenNothing
  <2>2. /\ Others(p)
        /\ pkg'[p].pc = "queued" /\ pkg'[p].type = pkg[p].type
        /\ pkg'[p].orders = pkg[p].orders
        /\ pkg'[p].instr = <<>> /\ pkg'[p].reports = <<>> /\ pkg'[p].work = pkg[p].work
    BY <1>6, <2>1, RetryFields
  <2>3. AnswersBy(pkg[p])'
    <3>1. /\ \A i \in 1..Len(pkg'[p].instr) : FALSE
          /\ pkg'[p].pc \notin {"create", "settle", "sent", "handled"}
      BY <2>2
    <3> QED
      BY <1>1, <2>2, <3>1, AnswersPart
  <2>4. \A q \in Package : AnswersBy(pkg[q])'
    BY <2>2, <2>3, AnswersOthers DEF WaitInv
  <2>5. \A o \in Order : Holds(pkg[p], o) => Holds(pkg'[p], o)
    BY <2>1, <2>2 DEF Holds
  <2>6. \A o \in Order : WaitOf(o)'
    BY <1>0, <1>2, <2>1, <2>2, <2>5, WaitThread DEF WaitInv
  <2> QED
    BY <1>0, <2>4, <2>6 DEF WaitInv
<1> QED
  BY <1>3, <1>4, <1>5, <1>6 DEF RequestError, RequestBroken, RetryOrGiveUp

\* The report of a place
LEMMA PlaceReports ==
  ASSUME NEW p \in Package, ExchangePlace(p)
  PROVE  \E r : Answer(p, <<r>>) /\ PlaceReport(r)
<1> DEFINE n == Len(exch) + 1
           R(st, bet, size) == [status |-> st, bet |-> bet, size |-> size, new |-> 0]
<1>1. \/ \E left : Answer(p, <<R("SUCCESS", n, left)>>)
      \/ AsyncPlace /\ Answer(p, <<R("SUCCESS", 0, Size)>>)
      \/ \E st \in {"FAILURE", "TIMEOUT"} : Answer(p, <<R(st, 0, Size)>>)
  BY DEF ExchangePlace, Reports
<1>2. /\ \A left : PlaceReport(R("SUCCESS", n, left)) \/ n = 0
      /\ AsyncPlace => PlaceReport(R("SUCCESS", 0, Size))
      /\ \A st \in {"FAILURE", "TIMEOUT"} : PlaceReport(R(st, 0, Size))
  BY DEF PlaceReport
<1> HIDE DEF R, n
<1>3. n # 0
  BY DEF n, ExchangePlace
<1> QED
  BY <1>1, <1>2, <1>3

LEMMA WaitExchange ==
  ASSUME TypeInv, TypeInv', BetInv, Lasts, WaitInv, NEW p \in Package,
         ExchangePlace(p) \/ ExchangeCancel(p) \/ ExchangeUpdate(p) \/ ExchangeReplace(p)
  PROVE  WaitInv'
<1>1. AnswersBy(pkg[p])
  BY DEF WaitInv
<1>2. /\ pkg[p].pc \in {"sent", "handled"} /\ pkg[p].instr # <<>>
      /\ UNCHANGED <<status, betId, pending, gaveUp>>
  BY DEF ExchangePlace, ExchangeCancel, ExchangeUpdate, ExchangeReplace, Processing, orderVars,
         mainVars
<1>3. ~ExchangeReplace(p)
  BY <1>1 DEF ExchangeReplace, Processing, AnswersBy
<1>4. PICK rep :
        /\ Answer(p, rep)
        /\ pkg[p].type = "PLACE" => \E r : rep = <<r>> /\ PlaceReport(r)
        /\ pkg[p].type = "UPDATE" => \E r : rep = <<r>>
        /\ pkg[p].type = "CANCEL" =>
             rep = <<>> \/ \E r : rep = <<r>> /\ r.bet = Head(pkg[p].instr).bet
  <2>1. CASE ExchangePlace(p)
    BY <2>1, PlaceReports DEF ExchangePlace, Processing
  <2>2. CASE ExchangeCancel(p)
    BY <2>2, CancelShape DEF Processing
  <2>3. CASE ExchangeUpdate(p)
    BY <2>3, UpdateShape DEF Processing
  <2> QED
    BY <1>3, <2>1, <2>2, <2>3
<1>5. /\ Others(p)
      /\ pkg'[p].pc = "handled" /\ pkg'[p].type = pkg[p].type
      /\ pkg'[p].orders = pkg[p].orders /\ pkg'[p].instr = Tail(pkg[p].instr)
      /\ pkg'[p].reports = pkg[p].reports \o rep /\ pkg'[p].work = pkg[p].work
  BY <1>4, AnswerFields
<1>6. \A o \in Order : /\ Holds(pkg[p], o) => Holds(pkg'[p], o)
                       /\ ~Placing(pkg[p], o)
  BY <1>2, <1>5 DEF Holds, Placing
<1>7. \A o \in Order : WaitOf(o)'
  BY <1>2, <1>5, <1>6, WaitThread DEF WaitInv
<1>8. /\ Head(pkg[p].instr) = pkg[p].instr[1] /\ 1 \in 1..Len(pkg[p].instr)
      /\ Len(pkg[p].instr) \in Nat /\ Len(Tail(pkg[p].instr)) = Len(pkg[p].instr) - 1
      /\ \A i \in 1..Len(Tail(pkg[p].instr)) :
           i + 1 \in 1..Len(pkg[p].instr) /\ Tail(pkg[p].instr)[i] = pkg[p].instr[i + 1]
  BY <1>2, InstrHead
<1>12. pkg[p].type \in {"PLACE", "CANCEL", "UPDATE"}
  BY <1>1, PackageFields DEF AnswersBy, PackageType
<1>9. pkg'[p].reports = pkg[p].reports
      \/ \E r : /\ rep = <<r>>
                /\ Len(pkg'[p].reports) = Len(pkg[p].reports) + 1
                /\ \A i \in 1..Len(pkg'[p].reports) :
                     \/ pkg'[p].reports[i] = r
                     \/ i \in 1..Len(pkg[p].reports) /\ pkg'[p].reports[i] = pkg[p].reports[i]
  <2>1. CASE rep = <<>>
    <3>1. pkg[p].reports \in Seq(ReportAt(Len(exch)))
      BY PackageFields
    <3> QED
      BY <1>5, <2>1, <3>1
  <2>2. ASSUME NEW r, rep = <<r>>
        PROVE  /\ Len(pkg'[p].reports) = Len(pkg[p].reports) + 1
               /\ \A i \in 1..Len(pkg'[p].reports) :
                     \/ pkg'[p].reports[i] = r
                     \/ i \in 1..Len(pkg[p].reports) /\ pkg'[p].reports[i] = pkg[p].reports[i]
    <3> DEFINE s == pkg[p].reports \o <<r>>
    <3>1. /\ Len(pkg[p].reports) \in Nat
          /\ Len(s) = Len(pkg[p].reports) + 1
          /\ \A i \in 1..Len(pkg[p].reports) : s[i] = pkg[p].reports[i]
          /\ s[Len(pkg[p].reports) + 1] = r
      BY ReportsMore
    <3>2. pkg'[p].reports = s
      BY <1>5, <2>2
    <3> HIDE DEF s
    <3> QED
      BY <3>1, <3>2
  <2>3. rep = <<>> \/ \E r : rep = <<r>>
    BY <1>4, <1>12
  <2> QED
    BY <2>1, <2>2, <2>3
<1>10. AnswersBy(pkg[p])'
  <2>1. CASE pkg[p].type = "PLACE"
    <3>1. \A i \in 1..Len(pkg'[p].reports) : PlaceReport(pkg'[p].reports[i])
      <4>1. PICK r : rep = <<r>> /\ PlaceReport(r)
        BY <1>4, <2>1
      <4>2. \A x : <<x>> = <<r>> => x = r
        OBVIOUS
      <4> QED
        BY <1>1, <1>9, <2>1, <4>1, <4>2 DEF AnswersBy
    <3> QED
      BY <1>1, <1>5, <2>1, <3>1 DEF AnswersBy, PlaceReport
  <2>2. CASE pkg[p].type = "UPDATE"
    <3>1. Len(pkg[p].reports) + Len(pkg[p].instr) = Len(pkg[p].orders)
      BY <1>1, <1>2, <2>2 DEF AnswersBy
    <3>2. Len(pkg'[p].reports) = Len(pkg[p].reports) + 1
      <4>1. PICK r : rep = <<r>>
        BY <1>4, <2>2
      <4>2. pkg'[p].reports = pkg[p].reports \o <<r>>
        BY <1>5, <4>1
      <4> QED
        BY <4>2, ReportsMore
    <3>3. Len(pkg[p].reports) \in Nat
      BY PackageFields
    <3>4. Len(pkg'[p].reports) + Len(pkg'[p].instr) = Len(pkg'[p].orders)
      <4>1. Len(pkg'[p].instr) = Len(pkg[p].instr) - 1 /\ Len(pkg[p].instr) \in Nat
        BY <1>5, <1>8
      <4>2. Len(pkg'[p].orders) = Len(pkg[p].orders)
        BY <1>5
      <4>3. \A a, b \in Nat : (a + 1) + (b - 1) = a + b
        OBVIOUS
      <4>4. (Len(pkg[p].reports) + 1) + (Len(pkg[p].instr) - 1) = Len(pkg[p].orders)
        BY <3>1, <3>3, <4>1, <4>3
      <4> QED
        BY <3>2, <4>1, <4>2, <4>4, Zenon
    <3> QED
      BY <1>1, <1>5, <2>2, <3>4 DEF AnswersBy
  <2>3. CASE pkg[p].type = "CANCEL"
    <3>1. \A i \in 1..Len(pkg'[p].instr) : BetOf(pkg[p], pkg'[p].instr[i].bet)
      BY <1>1, <1>5, <1>8, <2>3 DEF AnswersBy
    <3>2. \A i \in 1..Len(pkg'[p].reports) : BetOf(pkg[p], pkg'[p].reports[i].bet)
      <4>1. BetOf(pkg[p], Head(pkg[p].instr).bet)
        BY <1>1, <1>8, <2>3 DEF AnswersBy
      <4>2. \A x, y : <<x>> = <<y>> => x = y
        OBVIOUS
      <4>3. \A r : rep = <<r>> => r.bet = Head(pkg[p].instr).bet
        <5>1. ASSUME NEW r, rep = <<r>>
              PROVE  r.bet = Head(pkg[p].instr).bet
          <6>1. rep # <<>>
            BY <5>1
          <6>2. PICK x : rep = <<x>> /\ x.bet = Head(pkg[p].instr).bet
            BY <1>4, <2>3, <6>1
          <6> QED
            BY <4>2, <5>1, <6>2
        <5> QED
          BY <5>1
      <4> QED
        BY <1>1, <1>9, <2>3, <4>1, <4>3 DEF AnswersBy
    <3> QED
      BY <1>1, <1>2, <1>5, <2>3, <3>1, <3>2 DEF AnswersBy, BetOf
  <2> QED
    BY <1>12, <2>1, <2>2, <2>3
<1>11. \A q \in Package : AnswersBy(pkg[q])'
  BY <1>5, <1>10, AnswersOthers DEF WaitInv
<1> QED
  BY <1>2, <1>7, <1>11 DEF WaitInv

\* What the reply to a cancel request gives the thread to do
LEMMA CancelWork ==
  ASSUME TypeInv, NEW p \in Package, Reply(p), pkg[p].type = "CANCEL"
  PROVE  \E sorted \in Seq(ReportAt(Len(exch))) :
           /\ pkg'[p].work = Lookup(LiveOrders(p), sorted) \o Unreported(LiveOrders(p), sorted)
           /\ \A i \in 1..Len(sorted) : \E j \in 1..Len(pkg[p].reports) :
                sorted[i] = pkg[p].reports[j]
<1> DEFINE orders == LiveOrders(p)
           reports == IF pkg[p].processed THEN <<>> ELSE pkg[p].reports
<1>1. /\ pkg[p] \in PackageAt(Len(exch)) /\ DOMAIN pkg = Package
      /\ reports \in Seq(ReportAt(Len(exch)))
      /\ \A j \in 1..Len(reports) : j \in 1..Len(pkg[p].reports) /\ reports[j] = pkg[p].reports[j]
  BY PackageFields DEF TypeInv, PackagesOK
<1>2. PICK f \in Orderings(Len(reports)) :
        pkg' = [pkg EXCEPT ![p].pc = "next", ![p].instr = <<>>, ![p].reports = <<>>,
                           ![p].work = Lookup(orders, [i \in DOMAIN reports |-> reports[f[i]]])
                             \o Unreported(orders, [i \in DOMAIN reports |-> reports[f[i]]])]
  BY DEF Reply
<1> HIDE DEF orders, reports
<1> DEFINE sorted == [i \in DOMAIN reports |-> reports[f[i]]]
           w == Lookup(orders, sorted) \o Unreported(orders, sorted)
<1>3. /\ Len(reports) \in Nat /\ DOMAIN reports = 1..Len(reports)
      /\ \A i \in 1..Len(reports) : f[i] \in 1..Len(reports)
  BY <1>1, <1>2 DEF Orderings
<1>4. /\ sorted \in Seq(ReportAt(Len(exch))) /\ Len(sorted) = Len(reports)
      /\ \A i \in 1..Len(sorted) : sorted[i] = reports[f[i]]
  BY <1>1, <1>3, ElementOfSeq
<1>5. pkg' = [pkg EXCEPT ![p].pc = "next", ![p].instr = <<>>, ![p].reports = <<>>,
                         ![p].work = w]
  BY <1>2
<1> HIDE DEF sorted
<1>6. pkg'[p].work = w
  <2> HIDE DEF w
  <2>1. pkg'[p] = [pkg[p] EXCEPT !.pc = "next", !.instr = <<>>, !.reports = <<>>, !.work = w]
    BY <1>1, <1>5
  <2> QED
    BY <1>1, <2>1 DEF PackageAt
<1>7. \A i \in 1..Len(sorted) : \E j \in 1..Len(pkg[p].reports) : sorted[i] = pkg[p].reports[j]
  <2>1. ASSUME NEW i \in 1..Len(sorted)
        PROVE  \E j \in 1..Len(pkg[p].reports) : sorted[i] = pkg[p].reports[j]
    <3>1. f[i] \in 1..Len(reports) /\ sorted[i] = reports[f[i]]
      BY <1>3, <1>4
    <3>2. f[i] \in 1..Len(pkg[p].reports) /\ reports[f[i]] = pkg[p].reports[f[i]]
      BY <1>1, <3>1
    <3> QED
      BY <3>1, <3>2
  <2> QED
    BY <2>1
<1> QED
  BY <1>4, <1>6, <1>7 DEF orders

\* Reports that name the bets of the orders are all looked up, and every order is found
\* by its bet or is left without a report.
LEMMA LookupCovers ==
  ASSUME TypeInv, NEW orders \in Seq(Order), NEW sorted \in Seq(ReportAt(Len(exch))),
         \A i \in 1..Len(sorted) : \E j \in 1..Len(orders) : betId[orders[j]] = sorted[i].bet,
         \A o, n \in Order : betId[o] # 0 /\ betId[o] = betId[n] => o = n,
         \A i \in 1..Len(orders) : betId[orders[i]] # 0
  PROVE  LET w == Lookup(orders, sorted) \o Unreported(orders, sorted) IN
         /\ \A i \in 1..Len(w) : w[i].order # NoOrder
         /\ \A j \in 1..Len(orders) : \E i \in 1..Len(w) : w[i].order = orders[j]
<1> DEFINE S == {o \in Order : betId[o] \notin {r.bet : r \in Range(sorted)}}
           left == Select(orders, S)
           a == Lookup(orders, sorted)
           b == Unreported(orders, sorted)
<1>1. /\ a \in Seq(WorkAt(Len(exch))) /\ b \in Seq(WorkAt(Len(exch)))
  BY LookupType, UnreportedType DEF TypeInv, ExchangeOK
<1>2. /\ Len(sorted) \in Nat /\ DOMAIN sorted = 1..Len(sorted) /\ Len(orders) \in Nat
      /\ \A j \in 1..Len(orders) : orders[j] \in Order
  BY ElementOfSeq
<1>3. \A x : x \in Range(orders) <=> \E j \in 1..Len(orders) : x = orders[j]
  BY DEF Range
<1>4. /\ Len(a) = Len(sorted)
      /\ \A i \in 1..Len(a) : /\ a[i].order \in Range(orders)
                              /\ betId[a[i].order] = sorted[i].bet
  <2> DEFINE O(i) == IF \E o \in Range(orders) : betId[o] = sorted[i].bet
                     THEN CHOOSE o \in Range(orders) : betId[o] = sorted[i].bet
                     ELSE NoOrder
  <2>1. a = [i \in DOMAIN sorted |-> [order |-> O(i), report |-> sorted[i]]]
    BY DEF Lookup
  <2>2. \A i \in 1..Len(sorted) : O(i) \in Range(orders) /\ betId[O(i)] = sorted[i].bet
    <3>1. ASSUME NEW i \in 1..Len(sorted)
          PROVE  O(i) \in Range(orders) /\ betId[O(i)] = sorted[i].bet
      <4>1. PICK j \in 1..Len(orders) : betId[orders[j]] = sorted[i].bet
        OBVIOUS
      <4>2. \E o \in Range(orders) : betId[o] = sorted[i].bet
        BY <1>3, <4>1
      <4> QED
        BY <4>2
    <3> HIDE DEF O
    <3> QED
      BY <3>1
  <2> HIDE DEF O, a, b, left
  <2> QED
    BY <1>1, <1>2, <2>1, <2>2
<1>5. left \in Seq(Order) /\ Len(left) \in Nat
      /\ \A i \in 1..Len(left) : \E j \in 1..Len(orders) : left[i] = orders[j]
  <2> HIDE DEF S
  <2> QED
    BY SelectType
<1>6. Len(b) = Len(left) /\ \A i \in 1..Len(b) : b[i].order = left[i]
  <2>1. b = [i \in DOMAIN left |-> [order |-> left[i], report |-> Missing]]
    BY DEF Unreported
  <2> HIDE DEF left, b, a
  <2> QED
    BY <1>1, <1>5, <2>1
<1>7. ASSUME NEW j \in 1..Len(orders), orders[j] \in S
      PROVE  \E i \in 1..Len(left) : left[i] = orders[j]
  <2> HIDE DEF S
  <2>1. \E i \in 1..Len(Select(orders, S)) : Select(orders, S)[i] = orders[j]
    BY ONLY <1>7, SelectKeeps, orders \in Seq(Order)
  <2> QED
    BY <2>1
<1>8. ASSUME NEW j \in 1..Len(orders), orders[j] \notin S
      PROVE  \E i \in 1..Len(a) : a[i].order = orders[j]
  <2>1. PICK r \in Range(sorted) : betId[orders[j]] = r.bet
    BY <1>2, <1>8
  <2>2. PICK i \in 1..Len(sorted) : sorted[i] = r
    BY <1>2, <2>1 DEF Range
  <2> HIDE DEF a, b, left, S
  <2>3. a[i].order \in Range(orders) /\ betId[a[i].order] = betId[orders[j]] /\ i \in 1..Len(a)
    BY <1>4, <2>1, <2>2
  <2>4. a[i].order \in Order /\ orders[j] \in Order /\ betId[orders[j]] # 0
    BY <1>2, <1>3, <2>3
  <2> QED
    BY <2>3, <2>4
<1>9. \A i \in 1..Len(a) : a[i].order # NoOrder
  <2> HIDE DEF a
  <2> QED
    BY <1>2, <1>3, <1>4, OrderAssumption
<1>10. \A i \in 1..Len(b) : b[i].order # NoOrder
  <2> HIDE DEF b, left
  <2> QED
    BY <1>2, <1>5, <1>6, OrderAssumption
<1>11. /\ Len(a) \in Nat /\ Len(b) \in Nat /\ Len(a \o b) = Len(a) + Len(b)
       /\ \A i \in 1..Len(a) + Len(b) :
            (a \o b)[i] = IF i <= Len(a) THEN a[i] ELSE b[i - Len(a)]
  <2> HIDE DEF a, b
  <2> QED
    BY <1>1, ConcatProperties
<1> HIDE DEF a, b, left, S
<1>12. \A i \in 1..Len(a \o b) : \/ i \in 1..Len(a) /\ (a \o b)[i] = a[i]
                                 \/ (i - Len(a)) \in 1..Len(b) /\ (a \o b)[i] = b[i - Len(a)]
  BY <1>11
<1>13. \A i \in 1..Len(a \o b) : (a \o b)[i].order # NoOrder
  BY <1>9, <1>10, <1>12
<1>14. ASSUME NEW j \in 1..Len(orders)
       PROVE  \E i \in 1..Len(a \o b) : (a \o b)[i].order = orders[j]
  <2>1. CASE orders[j] \in S
    <3>1. PICK i \in 1..Len(b) : b[i].order = orders[j]
      <4>1. PICK i \in 1..Len(left) : left[i] = orders[j]
        BY <1>7, <2>1
      <4>2. i \in 1..Len(b) /\ b[i].order = left[i]
        BY <1>6
      <4> QED
        BY <4>1, <4>2
    <3>2. i + Len(a) \in 1..Len(a) + Len(b) /\ ~(i + Len(a) <= Len(a)) /\ (i + Len(a)) - Len(a) = i
      BY <1>11
    <3>3. (a \o b)[i + Len(a)] = b[i]
      BY <1>11, <3>2
    <3> QED
      BY <1>11, <3>1, <3>2, <3>3
  <2>2. CASE orders[j] \notin S
    <3>1. PICK i \in 1..Len(a) : a[i].order = orders[j]
      BY <1>8, <2>2
    <3>2. i \in 1..Len(a) + Len(b) /\ i <= Len(a)
      BY <1>11
    <3>3. (a \o b)[i] = a[i]
      BY <1>11, <3>2
    <3> QED
      BY <1>11, <3>1, <3>2, <3>3
  <2> QED
    BY <2>1, <2>2
<1> QED
  BY <1>13, <1>14 DEF a, b

\* Every order of the package that waits gets something to apply, or is given up.
LEMMA WaitReply ==
  ASSUME TypeInv, TypeInv', TrackedInv, BetInv, Aligned, Lasts, WaitInv, NEW p \in Package,
         Reply(p)
  PROVE  WaitInv'
<1>1. /\ pkg[p].pc \in {"sent", "handled"}
      /\ pkg[p].pc = "sent" => pkg[p].processed
      /\ Others(p)
      /\ pkg'[p].pc = "next" /\ pkg'[p].type = pkg[p].type
      /\ pkg'[p].orders = pkg[p].orders
      /\ pkg'[p].instr = <<>> /\ pkg'[p].reports = <<>>
      /\ pkg[p].type # "CANCEL" =>
           pkg'[p].work = Zip(LiveOrders(p), IF pkg[p].processed THEN <<>> ELSE pkg[p].reports)
  BY ReplyFields
<1>2. /\ UNCHANGED <<status, betId, pending>>
      /\ gaveUp' = IF pkg[p].type # "CANCEL" /\ pkg[p].processed
                   THEN gaveUp \cup Range(LiveOrders(p)) ELSE gaveUp
      /\ ~pkg[p].processed => pkg[p].instr = <<>>
  BY DEF Reply, orderVars, mainVars, SeenAll, SeenNothing
<1>3. AnswersBy(pkg[p]) /\ ShapeOK(pkg[p])
  BY DEF WaitInv, BetInv
<1>4. /\ pkg[p].orders \in Seq(Order) /\ LiveOrders(p) \in Seq(Order)
      /\ pkg[p].reports \in Seq(ReportAt(Len(exch)))
      /\ pkg[p].type \in {"PLACE", "CANCEL", "UPDATE"}
      /\ Len(pkg[p].orders) \in Nat /\ Len(LiveOrders(p)) \in Nat /\ Len(pkg[p].reports) \in Nat
  BY <1>3, PackageFields, LiveOrdersType DEF AnswersBy, PackageType
<1>5. \/ LiveOrders(p) = pkg[p].orders
      \/ LiveOrders(p) = <<>> /\ \A i \in 1..Len(pkg[p].orders) :
                                   status[pkg[p].orders[i]] = "VIOLATION"
  BY LiveOrNone
<1>6. /\ \A i \in 1..Len(pkg'[p].instr) : FALSE
      /\ \A i \in 1..Len(pkg'[p].reports) : FALSE
  BY <1>1
<1>7. ASSUME pkg[p].type \in {"PLACE", "UPDATE"}
      PROVE  /\ AnswersBy(pkg[p])'
             /\ \A o \in Order : status[o] \in Awaiting /\ Holds(pkg[p], o) =>
                  o \in gaveUp' \/ Holds(pkg'[p], o)
  <2>1. PICK orders, reports : /\ orders = LiveOrders(p)
                               /\ reports = IF pkg[p].processed THEN <<>> ELSE pkg[p].reports
    OBVIOUS
  <2>2. orders \in Seq(Order) /\ reports \in Seq(ReportAt(Len(exch)))
    BY <1>4, <2>1
  <2>3. pkg'[p].work = Zip(orders, reports)
    BY <1>1, <1>7, <2>1
  <2>4. /\ Len(pkg'[p].work) \in Nat
        /\ Len(pkg'[p].work) <= Len(orders) /\ Len(pkg'[p].work) <= Len(reports)
        /\ Len(pkg'[p].work) = Len(orders) \/ Len(pkg'[p].work) = Len(reports)
        /\ \A n \in 1..Len(pkg'[p].work) :
             /\ pkg'[p].work[n].order = orders[n]
             /\ pkg'[p].work[n].report = reports[n]
    BY <2>2, <2>3, ZipFields
  <2>5. \A n \in 1..Len(pkg'[p].work) : n \in 1..Len(orders) /\ n \in 1..Len(reports)
    <3>1. Len(orders) \in Nat /\ Len(reports) \in Nat
      BY <2>2
    <3> QED
      BY <2>4, <3>1
  <2>6. AnswersBy(pkg[p])'
    <3>1. \A n \in 1..Len(pkg'[p].work) : pkg'[p].work[n].order # NoOrder
      BY <2>2, <2>4, <2>5, ElementOfSeq, OrderAssumption
    <3>2. pkg[p].type = "PLACE" =>
            \A n \in 1..Len(pkg'[p].work) : PlaceReport(pkg'[p].work[n].report)
      <4>1. \A n \in 1..Len(reports) : reports[n] = pkg[p].reports[n] /\ n \in 1..Len(pkg[p].reports)
        BY <2>1
      <4> QED
        BY <1>3, <2>4, <2>5, <4>1 DEF AnswersBy
    <3> QED
      BY <1>1, <1>3, <1>6, <1>7, <3>1, <3>2 DEF AnswersBy, PlaceReport
  <2>7. ASSUME NEW o \in Order, status[o] \in Awaiting, Holds(pkg[p], o)
        PROVE  o \in gaveUp' \/ Holds(pkg'[p], o)
    <3>1. PICK j \in 1..Len(pkg[p].orders) : pkg[p].orders[j] = o
      BY <1>1, <2>7 DEF Holds
    <3>2. orders = pkg[p].orders
      BY <1>5, <2>1, <2>7, <3>1 DEF Awaiting
    <3>3. CASE pkg[p].processed
      BY <1>2, <1>7, <2>1, <3>1, <3>2, <3>3 DEF Range
    <3>4. CASE ~pkg[p].processed
      <4>1. pkg[p].pc = "handled" /\ pkg[p].instr = <<>> /\ reports = pkg[p].reports
        BY <1>1, <1>2, <2>1, <3>4
      <4>2. Len(pkg[p].reports) + Len(pkg[p].instr) = Len(pkg[p].orders)
        BY <1>3, <1>7, <4>1 DEF AnswersBy, ShapeOK
      <4>3. Len(pkg[p].instr) = 0
        BY <4>1
      <4>4. Len(reports) = Len(orders)
        BY <1>4, <3>2, <4>1, <4>2, <4>3
      <4>5. j \in 1..Len(pkg'[p].work) /\ pkg'[p].work[j].order = o
        BY <2>4, <3>1, <3>2, <4>4
      <4> QED
        BY <1>1, <4>5 DEF Holds
    <3> QED
      BY <3>3, <3>4
  <2> QED
    BY <2>6, <2>7
<1>8. ASSUME pkg[p].type = "CANCEL"
      PROVE  /\ AnswersBy(pkg[p])'
             /\ \A o \in Order : status[o] \in Awaiting /\ Holds(pkg[p], o) =>
                  o \in gaveUp' \/ Holds(pkg'[p], o)
  <2>1. PICK sorted \in Seq(ReportAt(Len(exch))) :
          /\ pkg'[p].work = Lookup(LiveOrders(p), sorted) \o Unreported(LiveOrders(p), sorted)
          /\ \A i \in 1..Len(sorted) : \E j \in 1..Len(pkg[p].reports) :
               sorted[i] = pkg[p].reports[j]
    BY <1>8, CancelWork
  <2>2. \A i \in 1..Len(sorted) : BetOf(pkg[p], sorted[i].bet)
    BY <1>3, <1>8, <2>1 DEF AnswersBy
  <2>3. CASE LiveOrders(p) = pkg[p].orders
    <3>1. \A i \in 1..Len(sorted) : \E j \in 1..Len(LiveOrders(p)) :
            betId[LiveOrders(p)[j]] = sorted[i].bet
      BY <2>2, <2>3 DEF BetOf
    <3>2. \A o, n \in Order : betId[o] # 0 /\ betId[o] = betId[n] => o = n
      BY DEF BetInv, BetOK
    <3>3. \A i \in 1..Len(LiveOrders(p)) : betId[LiveOrders(p)[i]] # 0
      BY <1>8, <2>3, PackageFields
    <3>4. /\ \A i \in 1..Len(pkg'[p].work) : pkg'[p].work[i].order # NoOrder
          /\ \A j \in 1..Len(pkg[p].orders) : \E i \in 1..Len(pkg'[p].work) :
               pkg'[p].work[i].order = pkg[p].orders[j]
      <4>1. PICK orders \in Seq(Order) : orders = LiveOrders(p)
        BY <1>4
      <4>2. LET w == Lookup(orders, sorted) \o Unreported(orders, sorted) IN
            /\ \A i \in 1..Len(w) : w[i].order # NoOrder
            /\ \A j \in 1..Len(orders) : \E i \in 1..Len(w) : w[i].order = orders[j]
        BY <3>1, <3>2, <3>3, <4>1, LookupCovers
      <4>3. /\ pkg'[p].work = Lookup(orders, sorted) \o Unreported(orders, sorted)
            /\ pkg[p].orders = orders
        BY <2>1, <2>3, <4>1
      <4> QED
        BY ONLY <4>2, <4>3
    <3>5. AnswersBy(pkg[p])'
      BY <1>1, <1>3, <1>6, <1>8, <3>4 DEF AnswersBy
    <3>6. \A o \in Order : Holds(pkg[p], o) => Holds(pkg'[p], o)
      BY <1>1, <3>4 DEF Holds
    <3> QED
      BY <3>5, <3>6
  <2>4. CASE LiveOrders(p) = <<>> /\ \A i \in 1..Len(pkg[p].orders) :
                                       status[pkg[p].orders[i]] = "VIOLATION"
    <3>1. ASSUME NEW i \in 1..Len(pkg'[p].work)
          PROVE  pkg'[p].work[i].order = NoOrder
      <4>1. ~ \E j \in 1..Len(LiveOrders(p)) : pkg'[p].work[i].order = LiveOrders(p)[j]
        BY <2>4
      <4> QED
        BY <1>8, <4>1, CancelItems
    <3>2. AnswersBy(pkg[p])'
      BY <1>1, <1>3, <1>6, <1>8, <3>1 DEF AnswersBy
    <3>3. \A o \in Order : Holds(pkg[p], o) => status[o] \notin Awaiting
      BY <1>1, <2>4 DEF Holds, Awaiting
    <3> QED
      BY <3>2, <3>3
  <2> QED
    BY <1>5, <2>3, <2>4
<1>9. /\ AnswersBy(pkg[p])'
      /\ \A o \in Order : status[o] \in Awaiting /\ Holds(pkg[p], o) =>
           o \in gaveUp' \/ Holds(pkg'[p], o)
  BY <1>4, <1>7, <1>8
<1>10. \A o \in Order : ~Placing(pkg[p], o)
  BY <1>1 DEF Placing
<1>11. \A o \in Order : WaitOf(o)'
  <2>1. gaveUp \subseteq gaveUp'
    BY <1>2
  <2> QED
    BY <1>1, <1>2, <1>9, <1>10, <2>1, WaitThread DEF WaitInv
<1>12. \A q \in Package : AnswersBy(pkg[q])'
  BY <1>1, <1>9, AnswersOthers DEF WaitInv
<1> QED
  BY <1>2, <1>11, <1>12 DEF WaitInv

\* The thread goes on with the reports it has, or without the first.
LEMMA AnswersWork ==
  ASSUME TypeInv, Lasts, WaitInv, NEW p \in Package, Others(p),
         pkg'[p].pc \in {"apply", "clear", "exit", "release", "next"},
         pkg'[p].type = pkg[p].type, pkg'[p].orders = pkg[p].orders,
         pkg'[p].instr = pkg[p].instr, pkg'[p].reports = pkg[p].reports,
         \/ pkg'[p].work = pkg[p].work
         \/ pkg'[p].work = Tail(pkg[p].work) /\ pkg[p].work # <<>>
  PROVE  \A q \in Package : AnswersBy(pkg[q])'
<1>1. \A i \in 1..Len(pkg'[p].work) : \E j \in 1..Len(pkg[p].work) :
        pkg'[p].work[i] = pkg[p].work[j]
  <2>1. CASE pkg'[p].work = pkg[p].work
    BY <2>1
  <2>2. CASE pkg'[p].work = Tail(pkg[p].work) /\ pkg[p].work # <<>>
    BY <2>2, WorkTail
  <2> QED
    BY <2>1, <2>2
<1>2. \A i \in 1..Len(pkg'[p].instr) : \E j \in 1..Len(pkg[p].instr) :
        pkg'[p].instr[i] = pkg[p].instr[j]
  OBVIOUS
<1>3. AnswersBy(pkg[p])'
  BY <1>1, <1>2, AnswersPart DEF WaitInv
<1> QED
  BY <1>3, AnswersOthers DEF WaitInv

\* What a report of a place gives the order is its bet, and the thread says so.
LEMMA WaitEnter ==
  ASSUME TypeInv, TypeInv', TrackedInv, BetInv, Lasts, WaitInv, NEW p \in Package, EnterTrade(p)
  PROVE  WaitInv'
<1>1. PICK o, c : o = Item(p).order /\ c = Item(p).report.bet
  OBVIOUS
<1>2. /\ pkg[p].pc = "next" /\ pkg[p].work # <<>> /\ o # NoOrder
      /\ TakesUp(p, "apply", o) /\ UNCHANGED <<status, pending, gaveUp>>
      /\ IF pkg[p].type = "PLACE" /\ c # 0 THEN betId' = [betId EXCEPT ![o] = c]
         ELSE betId' = betId
  BY <1>1 DEF EnterTrade, TakesUp, mainVars
<1>3. /\ Others(p)
      /\ pkg'[p].pc = "apply" /\ pkg'[p].type = pkg[p].type /\ pkg'[p].orders = pkg[p].orders
      /\ pkg'[p].instr = pkg[p].instr
      /\ pkg'[p].reports = pkg[p].reports /\ pkg'[p].work = pkg[p].work
  BY <1>2, SubjectFields
<1>4. \A q \in Package : AnswersBy(pkg[q])'
  BY <1>3, AnswersWork
<1>5. pkg[p].work[1].order = o /\ pkg[p].work[1].report.bet = c
  BY <1>1, <1>2, ItemHead
<1>6. \A x \in Order : /\ Holds(pkg[p], x) => Holds(pkg'[p], x)
                       /\ ~Placing(pkg[p], x)
  BY <1>2, <1>3 DEF Holds, Placing
<1>7. \A x \in Order : betId'[x] = betId[x] \/ Placing(pkg'[p], x)
  BY <1>2, <1>3, <1>5 DEF Placing, TypeInv, OrdersOK
<1>8. \A x \in Order : WaitOf(x)'
  BY <1>2, <1>3, <1>6, <1>7, WaitThread DEF WaitInv
<1> QED
  BY <1>2, <1>4, <1>8 DEF WaitInv

\* The status of the order that a report decides
LEMMA OutcomeDecides ==
  ASSUME TypeInv, WaitInv, NEW p \in Package, pkg[p].pc = "apply", ~Undecided(p),
         NEW o, NEW s, s = Outcome(pkg[p].type, o, Item(p).report)
  PROVE  s \in {"EXECUTABLE", "EXECUTION_COMPLETE"}
<1>1. AnswersBy(pkg[p]) /\ pkg[p].type \in PackageType
  BY PackageFields DEF WaitInv
<1>2. pkg[p].work # <<>>
  BY ApplyingItem DEF Applying
<1>3. CASE pkg[p].type = "PLACE"
  <2>1. Item(p) = pkg[p].work[1] /\ 1 \in 1..Len(pkg[p].work)
    BY <1>2, ItemHead
  <2>2. PlaceReport(Item(p).report)
    BY <1>1, <1>3, <2>1 DEF AnswersBy
  <2>3. Item(p).report.status = "FAILURE" \/ Item(p).report.bet # 0
    BY <1>3 DEF Undecided
  <2> QED
    BY <1>3, <2>2, <2>3 DEF Outcome, PlaceOutcome, PlaceReport
<1>4. CASE pkg[p].type = "CANCEL"
  BY <1>4 DEF Outcome, CancelOutcome
<1>5. CASE pkg[p].type = "UPDATE"
  BY <1>5 DEF Outcome
<1> QED
  BY <1>1, <1>3, <1>4, <1>5 DEF AnswersBy, PackageType

LEMMA WaitApply ==
  ASSUME TypeInv, TypeInv', TrackedInv, BetInv, Lasts, WaitInv, NEW p \in Package, ApplyReport(p)
  PROVE  WaitInv'
<1>1. PICK o, s : o = Item(p).order /\ s = Outcome(pkg[p].type, o, Item(p).report)
  OBVIOUS
<1>2. /\ pkg[p].pc = "apply" /\ ~Undecided(p)
      /\ status' = [status EXCEPT ![o] = s] /\ UNCHANGED <<betId, pending, gaveUp>>
      /\ Goto(p, IF s = "EXECUTABLE" THEN "clear"
                 ELSE IF Item(p).report.new # 0 THEN "create" ELSE "exit")
  BY <1>1 DEF ApplyReport, UpdateStatus, mainVars
<1>3. pkg[p].work # <<>> /\ o \in Order /\ s \in {"EXECUTABLE", "EXECUTION_COMPLETE"}
  BY <1>1, <1>2, ApplyingItem, OutcomeDecides DEF Applying
<1>4. /\ Item(p) = pkg[p].work[1] /\ 1 \in 1..Len(pkg[p].work) /\ Len(pkg[p].work) \in Nat
  BY <1>3, ItemHead
<1>5. Item(p).report.new = 0
  BY <1>4 DEF WaitInv, AnswersBy, BetInv, ShapeOK, ReportOK
<1>6. /\ Others(p)
      /\ pkg'[p].pc \in {"clear", "exit"} /\ pkg'[p].type = pkg[p].type
      /\ pkg'[p].orders = pkg[p].orders /\ pkg'[p].instr = pkg[p].instr
      /\ pkg'[p].reports = pkg[p].reports /\ pkg'[p].work = pkg[p].work
  BY <1>2, <1>5, GotoFields
<1>7. \A q \in Package : AnswersBy(pkg[q])'
  BY <1>6, AnswersWork
<1>8. /\ \A x \in Order \ {o} : status'[x] = status[x]
      /\ status'[o] \notin Awaiting
  BY <1>2, <1>3 DEF Awaiting, TypeInv, OrdersOK
<1>9. \A x \in Order \ {o} : /\ Holds(pkg[p], x) => Holds(pkg'[p], x)
                             /\ ~Placing(pkg[p], x)
  <2>1. \A i \in 1..Len(pkg[p].work) : i = 1 \/ i \in 2..Len(pkg[p].work)
    BY <1>4
  <2> QED
    BY <1>1, <1>2, <1>4, <1>6, <2>1 DEF Holds, Placing
<1>10. \A x \in Order : WaitOf(x)'
  BY <1>2, <1>6, <1>8, <1>9, WaitThread DEF WaitInv
<1> QED
  BY <1>2, <1>7, <1>10 DEF WaitInv

\* A report that decides nothing: the order was given up, or its bet is still to come
\* or was taken up by another report.
LEMMA WaitPass ==
  ASSUME TypeInv, TypeInv', TrackedInv, BetInv, Lasts, WaitInv, NEW p \in Package, PassReport(p)
  PROVE  WaitInv'
<1>1. PICK o, r : o = Item(p).order /\ r = Item(p).report
  OBVIOUS
<1>2. /\ pkg[p].pc = "apply" /\ pkg[p].type = "PLACE" /\ r.status # "FAILURE" /\ r.bet = 0
      /\ UNCHANGED <<status, betId, pending>> /\ Goto(p, "exit")
      /\ gaveUp' = IF r.status = "TIMEOUT" THEN gaveUp \cup {o} ELSE gaveUp
  BY <1>1 DEF PassReport, Undecided, orderVars, mainVars
<1>3. /\ Item(p) = pkg[p].work[1] /\ 1 \in 1..Len(pkg[p].work) /\ Len(pkg[p].work) \in Nat
  BY <1>2, ApplyingItem, ItemHead DEF Applying
<1>4. r.status = "TIMEOUT" \/ (AsyncPlace /\ r.status = "SUCCESS")
  <2>1. AnswersBy(pkg[p])
    BY DEF WaitInv
  <2>2. PlaceReport(r)
    BY <1>1, <1>2, <1>3, <2>1 DEF AnswersBy
  <2> QED
    BY <1>2, <2>2 DEF PlaceReport
<1>5. /\ Others(p)
      /\ pkg'[p].pc = "exit" /\ pkg'[p].type = pkg[p].type
      /\ pkg'[p].orders = pkg[p].orders /\ pkg'[p].instr = pkg[p].instr
      /\ pkg'[p].reports = pkg[p].reports /\ pkg'[p].work = pkg[p].work
  BY <1>2, GotoFields
<1>6. \A q \in Package : AnswersBy(pkg[q])'
  BY <1>5, AnswersWork
<1>7. \A x \in Order : ~Placing(pkg[p], x)
  BY <1>1, <1>2, <1>3 DEF Placing
<1>8. \A x \in Order \ {o} : Holds(pkg[p], x) => Holds(pkg'[p], x)
  <2>1. \A i \in 1..Len(pkg[p].work) : i = 1 \/ i \in 2..Len(pkg[p].work)
    BY <1>3
  <2> QED
    BY <1>1, <1>2, <1>3, <1>5, <2>1 DEF Holds
<1>9. ASSUME o \in Order, Match(pkg[p].type, status[o])
      PROVE  \/ o \in gaveUp'
             \/ AsyncPlace /\ status[o] = "PENDING" /\ betId'[o] = 0
             \/ status[o] = "PENDING" /\ \E q \in Package \ {p} : Placing(pkg[q], o)
  <2>1. status[o] = "PENDING"
    BY <1>2, <1>9 DEF Match
  <2>2. betId[o] # 0 => o \in gaveUp \/ \E q \in Package : Placing(pkg[q], o)
    BY <1>9, <2>1 DEF WaitInv, WaitOf
  <2> QED
    BY <1>2, <1>4, <1>7, <1>9, <2>1, <2>2
<1>10. \A x \in Order : WaitOf(x)'
  <2>1. gaveUp \subseteq gaveUp'
    BY <1>2
  <2> QED
    BY <1>2, <1>5, <1>7, <1>8, <1>9, <2>1, WaitThread DEF WaitInv
<1> QED
  BY <1>2, <1>6, <1>10 DEF WaitInv

\* The thread is done with the order it is handling.
LEMMA WaitExit ==
  ASSUME TypeInv, TypeInv', TrackedInv, BetInv, Lasts, WaitInv, NEW p \in Package,
         \/ ClearUpdateData(p) \/ CreateReplacement(p) \/ SettleReplacement(p)
         \/ ExitTrade(p) \/ ReleaseTrade(p)
  PROVE  WaitInv'
<1>1. pkg[p].pc \notin {"create", "settle"}
  BY DEF WaitInv, AnswersBy
<1>2. /\ pkg[p].pc \in {"clear", "exit", "release"}
      /\ UNCHANGED <<status, betId, pending, gaveUp>>
      /\ \/ \E pc \in {"exit", "release"} : Goto(p, pc)
         \/ NextItem(p)
  BY <1>1 DEF ClearUpdateData, CreateReplacement, SettleReplacement, ExitTrade, ReleaseTrade,
              orderVars, mainVars
<1>3. pkg[p].work # <<>>
  BY <1>2, ApplyingItem DEF Applying
<1>4. /\ Others(p)
      /\ pkg'[p].type = pkg[p].type
      /\ pkg'[p].orders = pkg[p].orders /\ pkg'[p].instr = pkg[p].instr
      /\ pkg'[p].reports = pkg[p].reports
      /\ \/ pkg'[p].pc \in {"exit", "release"} /\ pkg'[p].work = pkg[p].work
         \/ pkg'[p].pc = "next" /\ pkg'[p].work = Tail(pkg[p].work)
  BY <1>2, GotoFields, NextFields
<1>5. \A q \in Package : AnswersBy(pkg[q])'
  BY <1>3, <1>4, AnswersWork
<1>6. \A x \in Order : ~Placing(pkg[p], x)
  BY <1>2 DEF Placing
<1>7. ASSUME NEW x \in Order, Holds(pkg[p], x)
      PROVE  Holds(pkg'[p], x)
  <2>1. PICK i \in 2..Len(pkg[p].work) : pkg[p].work[i].order = x
    BY <1>2, <1>7 DEF Holds
  <2>2. CASE pkg'[p].pc \in {"exit", "release"} /\ pkg'[p].work = pkg[p].work
    BY <2>1, <2>2 DEF Holds
  <2>3. CASE pkg'[p].pc = "next" /\ pkg'[p].work = Tail(pkg[p].work)
    <3> DEFINE t == Tail(pkg[p].work)
    <3>1. /\ Len(t) = Len(pkg[p].work) - 1 /\ Len(pkg[p].work) \in Nat
          /\ \A n \in 1..Len(t) : t[n] = pkg[p].work[n + 1]
      BY <1>3, WorkTail
    <3> HIDE DEF t
    <3>2. i - 1 \in 1..Len(t) /\ (i - 1) + 1 = i
      BY <2>1, <3>1
    <3>3. t[i - 1] = pkg[p].work[i]
      BY <3>1, <3>2
    <3>4. pkg'[p].work = t
      BY <2>3 DEF t
    <3> QED
      BY <2>1, <2>3, <3>2, <3>3, <3>4 DEF Holds
  <2> QED
    BY <1>4, <2>2, <2>3
<1>8. \A x \in Order : WaitOf(x)'
  BY <1>2, <1>4, <1>6, <1>7, WaitThread DEF WaitInv
<1> QED
  BY <1>2, <1>5, <1>8 DEF WaitInv

-----------------------------------------------------------------------------
(* The steps of the main thread and of the exchange *)

\* No package changes and no order leaves a transaction.
LEMMA WaitMain ==
  ASSUME TypeInv, Lasts, WaitInv, UNCHANGED <<pkg, gaveUp>>, pending'["REPLACE"] = <<>>,
         \A type \in PackageType : \A i \in 1..Len(pending[type]) :
           \E j \in 1..Len(pending'[type]) : pending'[type][j] = pending[type][i],
         \A o \in Order :
           \/ status'[o] \notin Awaiting
           \/ status'[o] = status[o] /\ (status[o] = "PENDING" => betId'[o] = betId[o])
           \/ WaitOf(o)'
  PROVE  WaitInv'
<1>1. \A q \in Package : AnswersBy(pkg[q])'
  <2>1. ASSUME NEW q \in Package
        PROVE  AnswersBy(pkg[q])'
    <3>1. AnswersBy(pkg[q]) /\ pkg'[q] = pkg[q]
      BY DEF WaitInv
    <3> QED
      BY <3>1, AnswersPart DEF AnswersBy
  <2> QED
    BY <2>1
<1>2. ASSUME NEW o \in Order
      PROVE  WaitOf(o)'
  <2>1. WaitOf(o)
    BY DEF WaitInv
  <2>2. \A type \in PackageType : Expected(o, type) => Expected(o, type)'
    <3>1. ASSUME NEW type \in PackageType, Expected(o, type)
          PROVE  Expected(o, type)'
      <4>1. CASE \E i \in 1..Len(pending[type]) : pending[type][i] = o
        <5>1. PICK i \in 1..Len(pending[type]) : pending[type][i] = o
          BY <4>1
        <5>2. \E j \in 1..Len(pending'[type]) : pending'[type][j] = o
          BY <5>1
        <5> QED
          BY <5>2 DEF Expected
      <4>2. CASE o \in gaveUp \/ \E q \in Package : pkg[q].type = type /\ Holds(pkg[q], o)
        BY <4>2 DEF Expected, Holds
      <4> QED
        BY <3>1, <4>1, <4>2 DEF Expected
    <3> QED
      BY <3>1
  <2>3. CASE status'[o] \notin Awaiting
    BY <2>3 DEF WaitOf, Awaiting
  <2>4. CASE status'[o] = status[o] /\ (status[o] = "PENDING" => betId'[o] = betId[o])
    BY <2>1, <2>2, <2>4, WaitKept
  <2> QED
    BY <2>3, <2>4
<1> QED
  BY <1>1, <1>2 DEF WaitInv

\* An order joins a transaction.
LEMMA PendingMore ==
  ASSUME TypeInv, NEW type \in PackageType, NEW o \in Order,
         pending' = [pending EXCEPT ![type] = Append(@, o)]
  PROVE  /\ \A x \in PackageType \ {type} : pending'[x] = pending[x]
         /\ \A x \in PackageType : \A i \in 1..Len(pending[x]) :
              \E j \in 1..Len(pending'[x]) : pending'[x][j] = pending[x][i]
         /\ \E j \in 1..Len(pending'[type]) : pending'[type][j] = o
<1>1. pending \in [PackageType -> Seq(Order)]
  BY DEF TypeInv, MainOK
<1>2. PICK s \in Seq(Order) : s = pending[type]
  BY <1>1
<1>3. /\ Len(s) \in Nat /\ Len(Append(s, o)) = Len(s) + 1
      /\ \A i \in 1..Len(s) : Append(s, o)[i] = s[i]
      /\ Append(s, o)[Len(s) + 1] = o
  BY <1>2
<1>4. pending'[type] = Append(s, o) /\ \A x \in PackageType \ {type} : pending'[x] = pending[x]
  BY <1>1, <1>2
<1>5. \A i \in 1..Len(s) : i \in 1..Len(Append(s, o))
  BY <1>3
<1>6. Len(s) + 1 \in 1..Len(Append(s, o))
  BY <1>3
<1> QED
  BY <1>2, <1>3, <1>4, <1>5, <1>6

\* A cancel or an update is asked for; it may be rejected.
LEMMA WaitAsk ==
  ASSUME TypeInv, TypeInv', TrackedInv, NoReplaces, Lasts, WaitInv, NEW o \in Order,
         CancelOrder(o) \/ UpdateOrder(o) \/ ReplaceOrder(o) \/ RejectRequest(o)
  PROVE  WaitInv'
<1>0. pending["REPLACE"] = <<>> /\ status \in [Order -> OrderStatus]
  BY DEF WaitInv, TypeInv, OrdersOK
<1>1. ~ReplaceOrder(o)
  BY DEF ReplaceOrder, Request, NoReplaces
<1>2. UNCHANGED <<betId, pkg, gaveUp>>
  BY DEF CancelOrder, UpdateOrder, ReplaceOrder, RejectRequest, Request
<1>3. CASE RejectRequest(o)
  <2>1. status' = [status EXCEPT ![o] = "VIOLATION"] /\ pending' = pending
    BY <1>3 DEF RejectRequest, UpdateStatus, mainVars
  <2>2. \A x \in Order : status'[x] \notin Awaiting \/ status'[x] = status[x]
    BY <1>0, <2>1 DEF Awaiting
  <2> QED
    BY <1>0, <1>2, <2>1, <2>2, WaitMain
<1>4. ASSUME NEW type \in {"CANCEL", "UPDATE"}, Accept(o, type)
      PROVE  WaitInv'
  <2>1. /\ status' = [status EXCEPT ![o] = Requested[type]]
        /\ pending' = [pending EXCEPT ![type] = Append(@, o)]
        /\ type \in PackageType
    BY <1>4 DEF Accept, UpdateStatus, PackageType
  <2>2. /\ \A x \in PackageType \ {type} : pending'[x] = pending[x]
        /\ \A x \in PackageType : \A i \in 1..Len(pending[x]) :
             \E j \in 1..Len(pending'[x]) : pending'[x][j] = pending[x][i]
        /\ \E j \in 1..Len(pending'[type]) : pending'[type][j] = o
    BY <2>1, PendingMore
  <2>3. Expected(o, type)'
    BY <2>2 DEF Expected
  <2>4. status'[o] = IF type = "CANCEL" THEN "CANCELLING" ELSE "UPDATING"
    BY <1>0, <2>1 DEF Requested
  <2>5. WaitOf(o)'
    BY <2>3, <2>4 DEF WaitOf
  <2>6. pending'["REPLACE"] = <<>>
    BY <1>0, <2>2 DEF PackageType
  <2>7. \A x \in Order \ {o} : status'[x] = status[x]
    BY <1>0, <2>1
  <2> QED
    BY <1>2, <2>2, <2>5, <2>6, <2>7, WaitMain
<1> QED
  BY <1>1, <1>3, <1>4 DEF CancelOrder, UpdateOrder

\* An order is created, placed or rejected.
LEMMA WaitPlace ==
  ASSUME TypeInv, TypeInv', TrackedInv, Lasts, WaitInv, NEW o \in Order,
         (\E t \in Trade : CreateOrder(o, t)) \/ PlaceOrder(o) \/ RejectPlace(o)
  PROVE  WaitInv'
<1>0. pending["REPLACE"] = <<>> /\ status \in [Order -> OrderStatus]
  BY DEF WaitInv, TypeInv, OrdersOK
<1>1. UNCHANGED <<betId, pkg, gaveUp>>
  BY DEF CreateOrder, PlaceOrder, RejectPlace
<1>2. CASE (\E t \in Trade : CreateOrder(o, t)) \/ RejectPlace(o)
  <2>1. pending' = pending /\ \E s \in {"New", "VIOLATION"} : status' = [status EXCEPT ![o] = s]
    BY <1>2 DEF CreateOrder, RejectPlace, UpdateStatus, mainVars
  <2>2. \A x \in Order : status'[x] \notin Awaiting \/ status'[x] = status[x]
    BY <1>0, <2>1 DEF Awaiting
  <2> QED
    BY <1>0, <1>1, <2>1, <2>2, WaitMain
<1>3. CASE PlaceOrder(o)
  <2>1. /\ status[o] = "New" /\ status' = [status EXCEPT ![o] = "PENDING"]
        /\ pending' = [pending EXCEPT !["PLACE"] = Append(@, o)] /\ "PLACE" \in PackageType
    BY <1>3 DEF PlaceOrder, PackageType
  <2>2. /\ \A x \in PackageType \ {"PLACE"} : pending'[x] = pending[x]
        /\ \A x \in PackageType : \A i \in 1..Len(pending[x]) :
             \E j \in 1..Len(pending'[x]) : pending'[x][j] = pending[x][i]
        /\ \E j \in 1..Len(pending'["PLACE"]) : pending'["PLACE"][j] = o
    BY <2>1, PendingMore
  <2>3. Expected(o, "PLACE")' /\ betId'[o] = 0
    BY <1>1, <2>1, <2>2 DEF Expected, TrackedInv, BlotterInv
  <2>4. WaitOf(o)'
    BY <1>0, <2>1, <2>3 DEF WaitOf
  <2>5. pending'["REPLACE"] = <<>>
    BY <1>0, <2>2 DEF PackageType
  <2>6. \A x \in Order \ {o} : status'[x] = status[x]
    BY <1>0, <2>1
  <2> QED
    BY <1>1, <2>2, <2>4, <2>5, <2>6, WaitMain
<1> QED
  BY <1>2, <1>3

\* The transaction becomes a package.
LEMMA WaitExecute ==
  ASSUME TypeInv, TypeInv', TrackedInv, Lasts, WaitInv, NEW i \in 1..4, Execute(i)
  PROVE  WaitInv'
<1> DEFINE type == PackageOrder[i]
<1>1. PICK p \in Package :
        /\ pkg[p].pc = "free" /\ Others(p)
        /\ pkg'[p].pc = "queued" /\ pkg'[p].type = type /\ type \in PackageType
        /\ pkg'[p].orders = pending[type]
        /\ pkg'[p].instr = <<>> /\ pkg'[p].reports = <<>> /\ pkg'[p].work = <<>>
        /\ pending'[type] = <<>>
        /\ \A x \in PackageType \ {type} : pending'[x] = pending[x]
  BY ExecuteFields
<1>2. UNCHANGED <<status, betId, gaveUp>> /\ pending[type] # <<>>
  BY DEF Execute, orderVars
<1> HIDE DEF type
<1>3. pending["REPLACE"] = <<>> /\ type # "REPLACE"
  BY <1>2 DEF WaitInv
<1>4. pending'["REPLACE"] = <<>>
  BY <1>1, <1>3 DEF PackageType
<1>5. AnswersBy(pkg[p])'
  <2>1. /\ \A n \in 1..Len(pkg'[p].work) : FALSE
        /\ \A n \in 1..Len(pkg'[p].instr) : FALSE
        /\ \A n \in 1..Len(pkg'[p].reports) : FALSE
    BY <1>1
  <2> QED
    BY <1>1, <1>3, <2>1 DEF AnswersBy
<1>6. \A q \in Package : AnswersBy(pkg[q])'
  BY <1>1, <1>5, AnswersOthers DEF WaitInv
<1>7. ASSUME NEW o \in Order
      PROVE  WaitOf(o)'
  <2>1. WaitOf(o)
    BY DEF WaitInv
  <2>2. ~Holds(pkg[p], o) /\ ~Placing(pkg[p], o)
    BY <1>1 DEF Holds, Placing
  <2>3. ASSUME NEW x \in PackageType, Expected(o, x)
        PROVE  Expected(o, x)'
    <3>1. CASE o \in gaveUp
      BY <1>2, <3>1 DEF Expected
    <3>2. CASE x # type /\ \E j \in 1..Len(pending[x]) : pending[x][j] = o
      BY <1>1, <3>2 DEF Expected
    <3>3. CASE x = type /\ \E j \in 1..Len(pending[x]) : pending[x][j] = o
      <4>1. pkg'[p].type = x /\ Holds(pkg'[p], o)
        BY <1>1, <3>3 DEF Holds
      <4> QED
        BY <4>1 DEF Expected, Holds
    <3>4. ASSUME NEW q \in Package, pkg[q].type = x, Holds(pkg[q], o)
          PROVE  Expected(o, x)'
      <4>1. pkg'[q] = pkg[q]
        BY <1>1, <2>2, <3>4 DEF Others
      <4> QED
        BY <3>4, <4>1 DEF Expected, Holds
    <3> QED
      BY <2>3, <3>1, <3>2, <3>3, <3>4 DEF Expected
  <2>4. \A q \in Package : Placing(pkg[q], o) => Placing(pkg'[q], o)
    BY <1>1, <2>2 DEF Others
  <2> QED
    BY <1>2, <2>1, <2>3, <2>4, WaitKept
<1> QED
  BY <1>4, <1>6, <1>7 DEF WaitInv

\* A record: an order that takes a bet from it no longer waits for its place.
LEMMA WaitRecord ==
  ASSUME TypeInv, TypeInv', TrackedInv, Lasts, WaitInv, NEW b \in Bets,
         ProcessCurrentOrder(b) \/ CreateOrderFromCurrent(b)
  PROVE  WaitInv'
<1>0. /\ pending["REPLACE"] = <<>>
      /\ status \in [Order -> OrderStatus] /\ betId \in [Order -> 0..Len(exch)]
  BY DEF WaitInv, TypeInv, OrdersOK
<1>1. UNCHANGED <<pending, pkg, gaveUp>>
  BY DEF ProcessCurrentOrder, CreateOrderFromCurrent
<1>2. CASE ProcessCurrentOrder(b)
  <2>1. PICK o, bet, s : /\ o = OrderOf(b)
                         /\ bet = IF AsyncPlace /\ betId[o] = 0 THEN b ELSE betId[o]
                         /\ s = NewStatus(o, bet, current[b])
    OBVIOUS
  <2>2. /\ exch[b].ref \in blotter /\ o # NoOrder
        /\ betId' = [betId EXCEPT ![o] = bet]
        /\ status' = IF s = status[o] THEN status ELSE [status EXCEPT ![o] = s]
    BY <1>2, <2>1 DEF ProcessCurrentOrder, UpdateStatus
  <2>3. o \in Order
    BY <2>1, <2>2, OrderOfType
  <2>4. /\ \A x \in Order \ {o} : status'[x] = status[x] /\ betId'[x] = betId[x]
        /\ status'[o] = s /\ betId'[o] = bet
    BY <1>0, <2>2, <2>3
  <2>5. s \notin Awaiting \/ (s = status[o] /\ (s = "PENDING" => bet = 0))
    BY <2>1 DEF NewStatus, Awaiting
  <2>6. bet = 0 => betId[o] = 0
    BY <2>1 DEF Bets
  <2> QED
    BY <1>0, <1>1, <2>4, <2>5, <2>6, WaitMain
<1>3. CASE CreateOrderFromCurrent(b)
  <2>1. PICK o, s : o = exch[b].ref /\ s \in {"EXECUTABLE", "EXECUTION_COMPLETE"}
                    /\ status' = [status EXCEPT ![o] = s] /\ betId' = [betId EXCEPT ![o] = b]
    BY <1>3 DEF CreateOrderFromCurrent
  <2>2. \A x \in Order : \/ status'[x] \notin Awaiting
                         \/ status'[x] = status[x] /\ betId'[x] = betId[x]
    BY <1>0, <2>1 DEF Awaiting
  <2> QED
    BY <1>0, <1>1, <2>2, WaitMain
<1> QED
  BY <1>2, <1>3

\* The steps that change neither the orders nor the packages
LEMMA WaitQueue ==
  ASSUME TypeInv, TrackedInv, Lasts, WaitInv,
         \/ UNCHANGED vars \/ NextSnapshot \/ Snap
         \/ \E b \in Bets : SkipCurrentOrder(b) \/ ExchangeMatch(b)
  PROVE  WaitInv'
<1>1. pending["REPLACE"] = <<>>
  BY DEF WaitInv
<1>2. UNCHANGED <<status, betId, pending, pkg, gaveUp>>
  BY DEF vars, orderVars, mainVars, NextSnapshot, Snap, SkipCurrentOrder, ExchangeMatch
<1> QED
  BY <1>1, <1>2, WaitMain

\* The process has not done anything yet, or not since its restart.
LEMMA WaitNothing ==
  ASSUME status = [o \in Order |-> "None"], pending = NoPending, pkg = [p \in Package |-> Idle]
  PROVE  WaitInv
<1>1. \A p \in Package :
        /\ pkg[p].type = "PLACE" /\ pkg[p].pc = "free"
        /\ \A i \in 1..Len(pkg[p].work) : FALSE
        /\ \A i \in 1..Len(pkg[p].reports) : FALSE
  BY DEF Idle
<1>2. \A p \in Package : AnswersBy(pkg[p])
  BY <1>1 DEF AnswersBy
<1> QED
  BY <1>2 DEF WaitInv, WaitOf, NoPending, PackageType

LEMMA WaitRestart ==
  ASSUME Restart
  PROVE  WaitInv'
<1>1. /\ status' = [o \in Order |-> "None"] /\ pending' = NoPending
      /\ pkg' = [p \in Package |-> Idle]
  BY DEF Restart
<1>2. \A p \in Package :
        /\ pkg'[p].type = "PLACE" /\ pkg'[p].pc = "free"
        /\ \A i \in 1..Len(pkg'[p].work) : FALSE
        /\ \A i \in 1..Len(pkg'[p].reports) : FALSE
  BY <1>1 DEF Idle
<1>3. \A p \in Package : AnswersBy(pkg[p])'
  BY <1>2 DEF AnswersBy
<1> QED
  BY <1>1, <1>3 DEF WaitInv, WaitOf, NoPending, PackageType

LEMMA WaitNext ==
  ASSUME TypeInv, TypeInv', TrackedInv, BetInv, Aligned, ViewInv, NoReplaces, WaitInv,
         [Next]_vars
  PROVE  WaitInv'
<1>1. ASSUME NEW p \in Package, Thread(p) \/ RequestError(p) \/ RequestBroken(p)
      PROVE  WaitInv'
  <2>1. Lasts
    BY <1>1, LastsThread, LastsExchange DEF Thread
  <2> QED
    BY <1>1, <2>1, WaitSend, WaitRequest, WaitExchange, WaitReply, WaitEnter, WaitApply,
       WaitPass, WaitExit
    DEF Thread
<1>2. CASE Strategy \/ \E o \in Order : PlaceOrder(o) \/ RejectPlace(o)
  <2>1. Lasts
    BY <1>2, LastsMain DEF Strategy
  <2> QED
    BY <1>2, <2>1, WaitAsk, WaitPlace DEF Strategy
<1>3. ASSUME NEW i \in 1..4, Execute(i)
      PROVE  WaitInv'
  BY <1>3, LastsMain, WaitExecute
<1>4. ASSUME NEW b \in Bets, ProcessCurrentOrder(b) \/ CreateOrderFromCurrent(b)
      PROVE  WaitInv'
  BY <1>4, LastsRecord, WaitRecord
<1>5. CASE UNCHANGED vars \/ NextSnapshot \/ Snap \/ \E b \in Bets : SkipCurrentOrder(b)
  BY <1>5, LastsMain, WaitQueue
<1>6. ASSUME NEW b \in Bets, ExchangeMatch(b)
      PROVE  WaitInv'
  BY <1>6, LastsRecord, WaitQueue
<1>7. CASE Restart
  BY <1>7, WaitRestart
<1> QED
  BY <1>1, <1>2, <1>3, <1>4, <1>5, <1>6, <1>7 DEF Next, Main

-----------------------------------------------------------------------------
(* The theorem *)

\* A package that holds an order is one it is in.
LEMMA HoldsInPackage ==
  ASSUME TypeInv, WaitInv, NEW p \in Package, NEW o \in Order, Holds(pkg[p], o)
  PROVE  InPackage(p, o)
<1>1. CASE pkg[p].pc \in {"queued", "sent", "handled"}
  <2>1. pkg[p].orders \in Seq(Order)
    BY PackageFields
  <2>2. o \in Range(pkg[p].orders)
    BY <1>1, <2>1 DEF Holds, Range
  <2> QED
    BY <1>1, <2>2 DEF InPackage
<1>2. CASE pkg[p].pc \in {"next", "apply"}
  <2>1. pkg[p].work \in Seq(WorkAt(Len(exch)))
    BY PackageFields
  <2>2. \E w \in Range(pkg[p].work) : w.order = o
    BY <1>2, <2>1 DEF Holds, Range
  <2> QED
    BY <1>2, <2>2 DEF InPackage
<1>3. CASE pkg[p].pc \in {"clear", "exit", "release"}
  <2> DEFINE t == Tail(pkg[p].work)
  <2>1. PICK i \in 2..Len(pkg[p].work) : pkg[p].work[i].order = o
    BY <1>3 DEF Holds
  <2>2. pkg[p].work # <<>>
    BY <1>3, ApplyingItem DEF Applying
  <2>3. /\ Len(t) = Len(pkg[p].work) - 1 /\ Len(pkg[p].work) \in Nat
        /\ \A n \in 1..Len(t) : t[n] = pkg[p].work[n + 1]
    BY <2>2, WorkTail
  <2>4. t \in Seq(WorkAt(Len(exch)))
    BY <2>2, ItemType
  <2> HIDE DEF t
  <2>5. i - 1 \in 1..Len(t) /\ (i - 1) + 1 = i
    BY <2>1, <2>3
  <2>6. t[i - 1].order = o
    BY <2>1, <2>3, <2>5
  <2>7. i - 1 \in DOMAIN t
    BY <2>4, <2>5
  <2>8. \E w \in Range(t) : w.order = o
    BY <2>6, <2>7 DEF Range
  <2> QED
    BY <1>3, <2>8 DEF InPackage, t
<1> QED
  BY <1>1, <1>2, <1>3 DEF Holds

\* An order that waits for the exchange has a request in a transaction or a package, or
\* one that was given up after a fault (PendingHasRequest): no path through
\* execute_place, execute_cancel and execute_update, and no pairing of their reports,
\* leaves an order behind in a status that nobody will take it out of.
THEOREM PendingHasRequestSafe == Aligned /\ NoReplaces => (Spec => []PendingHasRequest)
<1> DEFINE Inv == TypeInv /\ TrackedInv /\ BetInv /\ ViewInv /\ WaitInv
<1>1. Init => Inv
  <2> SUFFICES ASSUME Init PROVE Inv
    OBVIOUS
  <2>1. TypeInv /\ TrackedInv /\ BetInv
    BY TypeInit, TrackedInit, BetNothing DEF Init
  <2>2. \A b \in 1..Len(exch) : FALSE
    BY DEF Init
  <2>3. ViewInv
    BY <2>2, ViewNothing DEF Init
  <2>4. WaitInv
    BY WaitNothing DEF Init
  <2> QED
    BY <2>1, <2>3, <2>4
<1>2. ASSUME Aligned, NoReplaces
      PROVE  Inv /\ [Next]_vars => Inv'
  BY <1>2, TypeStep, TrackedNext, BetNext, ViewNext, WaitNext
<1>3. Inv => PendingHasRequest
  <2> SUFFICES ASSUME Inv, NEW o \in Order, status[o] \in Awaiting
               PROVE  \/ \E type \in PackageType : o \in Range(pending[type])
                      \/ \E p \in Package : InPackage(p, o)
                      \/ o \in gaveUp
                      \/ AsyncPlace /\ status[o] = "PENDING" /\ betId[o] = 0
    BY DEF PendingHasRequest
  <2>1. WaitOf(o) /\ pending \in [PackageType -> Seq(Order)]
    BY DEF WaitInv, TypeInv, MainOK
  <2>2. \A type \in PackageType : Expected(o, type) =>
          \/ o \in Range(pending[type])
          \/ \E p \in Package : InPackage(p, o)
          \/ o \in gaveUp
    BY <2>1, HoldsInPackage DEF Expected, Range
  <2> QED
    BY <2>1, <2>2 DEF WaitOf, Awaiting, PackageType
<1> HIDE DEF Inv
<1>4. CASE Aligned /\ NoReplaces
  BY <1>1, <1>2, <1>3, <1>4, PTL DEF Spec
<1> QED
  BY <1>4

-----------------------------------------------------------------------------
(* The inductive invariant of live trades *)

\* A trade has one order.  With more, an order can join a trade between the two halves
\* of Trade.__exit__, which then forgets it, and LiveBetTracked does not hold.
SingleOrders == ~MultiOrderTrades /\ NoReplaces
\* No control rejects a request about an order that is at the exchange: the order would
\* be a violation, and its trade complete, with the bet still there.
NoControls == "control" \notin Faults

\* Nothing is left of the orders of the trade, or they never were at the exchange.
Cleared(t) ==
  \A o \in Order : trade[o] = t =>
    Settled(o) \/ (status[o] = "VIOLATION" /\ o \notin blotter)
KeptInv == \A o \in blotter : trade[o] \in liveTrades \/ Settled(o)
ReleaseInv ==
  \A p \in Package : pkg[p].pc = "release" => Cleared(trade[Item(p).order])
LiveInv == KeptInv /\ ReleaseInv

\* What a step may do to the trades: an order joins a trade of its own, and a trade is
\* forgotten when nothing is left of its orders.
Joins ==
  \A o \in Order :
    \/ trade'[o] = trade[o]
    \/ status[o] = "None" /\ o \notin blotter /\ \A n \in Order : trade[n] # trade'[o]
Forgets ==
  \A t \in liveTrades : t \in liveTrades' \/ \A o \in blotter' : trade'[o] = t => Settled(o)'
\* Who comes to the blotter has a trade that is counted, or is over.
Enters == \A o \in blotter' : o \in blotter \/ trade'[o] \in liveTrades' \/ Settled(o)'
Outside ==
  \A o \in Order : status[o] = "VIOLATION" /\ o \notin blotter =>
    status'[o] = "VIOLATION" /\ o \notin blotter'

LEMMA ClearedKept ==
  ASSUME TypeInv, BlotterInv, Lasts, Joins, Outside, NEW n \in blotter, Cleared(trade[n])
  PROVE  Cleared(trade[n])'
<1>1. trade'[n] = trade[n] /\ n \in Order
  BY DEF Joins, TypeInv, OrdersOK
<1>2. ASSUME NEW o \in Order, trade'[o] = trade[n]
      PROVE  Settled(o)' \/ (status'[o] = "VIOLATION" /\ o \notin blotter')
  <2>1. trade[o] = trade[n]
    BY <1>1, <1>2 DEF Joins
  <2>2. Settled(o) \/ (status[o] = "VIOLATION" /\ o \notin blotter)
    BY <2>1 DEF Cleared
  <2> QED
    BY <2>2 DEF Lasts, Outside
<1> QED
  BY <1>1, <1>2 DEF Cleared

LEMMA LiveStep ==
  ASSUME TypeInv, TypeInv', TrackedInv, Lasts, LiveInv, Joins, Forgets, Enters, Outside,
         \A p \in Package : pkg'[p].pc = "release" =>
           \/ pkg[p].pc = "release" /\ pkg'[p].work = pkg[p].work
           \/ Cleared(trade[Item(p).order])'
  PROVE  LiveInv'
<1>1. KeptInv'
  <2>1. ASSUME NEW o \in blotter'
        PROVE  trade'[o] \in liveTrades' \/ Settled(o)'
    <3>1. CASE o \in blotter
      <4>1. trade'[o] = trade[o] /\ o \in Order
        BY <3>1 DEF Joins, TypeInv, OrdersOK
      <4>2. CASE Settled(o)
        BY <4>1, <4>2 DEF Lasts
      <4>3. CASE trade[o] \in liveTrades
        BY <2>1, <4>1, <4>3 DEF Forgets
      <4> QED
        BY <3>1, <4>2, <4>3 DEF LiveInv, KeptInv
    <3>2. CASE o \notin blotter
      BY <2>1, <3>2 DEF Enters
    <3> QED
      BY <3>1, <3>2
  <2> QED
    BY <2>1 DEF KeptInv
<1>2. ASSUME NEW p \in Package, pkg[p].pc = "release", pkg'[p].work = pkg[p].work
      PROVE  Cleared(trade[Item(p).order])'
  <2>1. pkg[p].work # <<>> /\ Item(p).order # NoOrder
    BY <1>2, ApplyingItem DEF Applying
  <2>2. Item(p).order \in blotter
    BY <2>1, ItemTracked
  <2>3. Cleared(trade[Item(p).order])
    BY <1>2 DEF LiveInv, ReleaseInv
  <2>4. PICK n \in blotter : n = Item(p).order
    BY <2>2
  <2>5. Cleared(trade[n])'
    BY <2>3, <2>4, ClearedKept DEF TrackedInv
  <2>6. Item(p)' = Item(p)
    BY <1>2 DEF Item
  <2>7. trade'[Item(p)'.order] = trade'[n]
    BY <2>4, <2>6
  <2> QED
    BY <2>5, <2>7 DEF Cleared
<1>3. ReleaseInv'
  BY <1>2 DEF ReleaseInv
<1> QED
  BY <1>1, <1>3 DEF LiveInv

-----------------------------------------------------------------------------
(* The steps *)

\* A step that leaves the orders' trades and the blotter as they are
LEMMA SameJoins ==
  ASSUME TypeInv, UNCHANGED <<trade, blotter>>
  PROVE  Joins /\ Enters
BY DEF Joins, Enters

\* A trade is complete when all its orders are: those that are at the exchange are
\* settled, and the others were rejected.
LEMMA AllCompleteCleared ==
  ASSUME TypeInv, BlotterInv, NoControls, StatusDone, NEW t, AllComplete(t, status)
  PROVE  Cleared(t)
<1> SUFFICES ASSUME NEW o \in Order, trade[o] = t
             PROVE  Settled(o) \/ (status[o] = "VIOLATION" /\ o \notin blotter)
  BY DEF Cleared
<1>1. status[o] \in {"EXECUTION_COMPLETE", "VIOLATION"}
  BY DEF AllComplete, Complete
<1>2. status[o] = "VIOLATION" => o \notin blotter
  BY DEF BlotterInv, NoControls
<1> QED
  BY <1>1, <1>2 DEF StatusDone

\* _update_status forgets a trade whose orders are all complete.
LEMMA UpdateForgets ==
  ASSUME TypeInv, TypeInv', BlotterInv', NoControls, StatusDone',
         UNCHANGED trade, NEW o, NEW s, UpdateStatus(o, s)
  PROVE  Forgets
<1>1. CASE UNCHANGED liveTrades
  BY <1>1 DEF Forgets
<1>2. CASE TradeDone(trade[o], status') /\ liveTrades' = liveTrades \ {trade[o]}
  <2>1. ASSUME NEW n \in blotter', trade'[n] = trade[o]
        PROVE  Settled(n)'
    <3>1. n \in Order /\ trade[n] = trade[o]
      BY <2>1 DEF TypeInv, OrdersOK
    <3>2. status'[n] \in {"EXECUTION_COMPLETE", "VIOLATION"}
      BY <1>2, <3>1 DEF TradeDone, AllComplete, Complete
    <3>3. status'[n] # "VIOLATION"
      BY <2>1 DEF BlotterInv, NoControls
    <3> QED
      BY <3>1, <3>2, <3>3 DEF StatusDone
  <2>2. \A t \in liveTrades : t \in liveTrades' \/ t = trade[o]
    BY <1>2
  <2> QED
    BY <2>1, <2>2 DEF Forgets
<1> QED
  BY <1>1, <1>2 DEF UpdateStatus, CompleteTrade, tradeVars

\* Orders outside the blotter keep their status but when one is created or placed.
LEMMA StatusOutside ==
  ASSUME TypeInv, NEW o, NEW s, status' = [status EXCEPT ![o] = s], UNCHANGED blotter,
         o \in blotter \/ (o \in Order => status[o] # "VIOLATION")
  PROVE  Outside
BY DEF Outside, TypeInv, OrdersOK

\* The thread's steps that change no order and forget no trade
LEMMA LiveQuiet ==
  ASSUME TypeInv, TypeInv', TrackedInv, Lasts, LiveInv, NEW p \in Package,
         UNCHANGED <<status, trade, blotter, liveTrades>>, Others(p),
         pkg'[p].pc # "release"
  PROVE  LiveInv'
<1>1. Joins /\ Enters /\ Forgets /\ Outside
  BY SameJoins DEF Forgets, Outside
<1>2. ASSUME NEW q \in Package, pkg'[q].pc = "release"
      PROVE  pkg[q].pc = "release" /\ pkg'[q].work = pkg[q].work
  BY <1>2 DEF Others
<1> QED
  BY <1>1, <1>2, LiveStep

\* The thread sends, waits for, or prepares to apply its reports.
LEMMA LiveThread ==
  ASSUME TypeInv, TypeInv', TrackedInv, Lasts, LiveInv, NEW p \in Package,
         \/ SendRequest(p) \/ AbandonRequest(p) \/ RequestError(p) \/ RequestBroken(p)
         \/ ExchangePlace(p) \/ ExchangeCancel(p) \/ ExchangeUpdate(p)
         \/ ExchangeReplace(p)
         \/ Reply(p) \/ EnterTrade(p) \/ Finish(p)
         \/ PassReport(p) \/ ClearUpdateData(p)
  PROVE  LiveInv'
<1>1. UNCHANGED <<status, trade, blotter, liveTrades>>
  BY DEF SendRequest, AbandonRequest, RequestError, RequestBroken, ExchangePlace,
         ExchangeCancel, ExchangeUpdate, ExchangeReplace, Processing, Reply, EnterTrade,
         Finish, PassReport, ClearUpdateData, orderVars, tradeVars
<1>2. Others(p) /\ pkg'[p].pc # "release"
  <2>1. CASE AbandonRequest(p) \/ RequestBroken(p) \/ Finish(p)
    BY <2>1, LeaveFields DEF AbandonRequest, RequestBroken, Finish, Idle
  <2>2. CASE RequestError(p)
    <3>1. CASE RetryLeft(p)
      BY <2>2, <3>1, RetryFields DEF RequestError
    <3>2. CASE ~RetryLeft(p)
      BY <2>2, <3>2, LeaveFields DEF RequestError, RetryOrGiveUp, Idle
    <3> QED
      BY <3>1, <3>2
  <2>3. CASE \/ ExchangePlace(p) \/ ExchangeCancel(p) \/ ExchangeUpdate(p)
             \/ ExchangeReplace(p)
    <3>1. \E rep : Answer(p, rep)
      BY <2>3, PlaceShape, CancelShape, UpdateShape, ReplaceShape
    <3> QED
      BY <3>1, AnswerFields
  <2>4. CASE EnterTrade(p)
    <3>1. TakesUp(p, "apply", Item(p).order)
      BY <2>4 DEF EnterTrade, TakesUp
    <3> QED
      BY <3>1, SubjectFields
  <2> QED
    BY <2>1, <2>2, <2>3, <2>4, SendFields, ReplyFields, GotoFields
    DEF PassReport, ClearUpdateData
<1> QED
  BY <1>1, <1>2, LiveQuiet

LEMMA LiveApply ==
  ASSUME TypeInv, TypeInv', TrackedInv, TrackedInv', NoControls, WaitInv, Lasts,
         StatusDone', LiveInv, NEW p \in Package, ApplyReport(p)
  PROVE  LiveInv'
<1>1. PICK o, s : o = Item(p).order /\ s = Outcome(pkg[p].type, o, Item(p).report)
  OBVIOUS
<1>2. /\ pkg[p].pc = "apply" /\ ~Undecided(p) /\ UpdateStatus(o, s)
      /\ UNCHANGED <<trade, blotter>>
      /\ Goto(p, IF s = "EXECUTABLE" THEN "clear"
                 ELSE IF Item(p).report.new # 0 THEN "create" ELSE "exit")
  BY <1>1 DEF ApplyReport
<1>3. pkg[p].work # <<>> /\ o \in Order /\ o # NoOrder
  BY <1>1, <1>2, ApplyingItem DEF Applying
<1>4. o \in blotter
  BY <1>1, <1>3, ItemTracked
<1>5. Joins /\ Enters
  BY <1>2, SameJoins
<1>6. Forgets
  BY <1>2, UpdateForgets DEF TrackedInv
<1>7. Outside
  <2>1. status' = [status EXCEPT ![o] = s]
    BY <1>2 DEF UpdateStatus
  <2> QED
    BY <1>2, <1>4, <2>1, StatusOutside
<1>8. Others(p) /\ pkg'[p].pc # "release"
  BY <1>2, GotoFields
<1>9. ASSUME NEW q \in Package, pkg'[q].pc = "release"
      PROVE  pkg[q].pc = "release" /\ pkg'[q].work = pkg[q].work
  BY <1>8, <1>9 DEF Others
<1> QED
  BY <1>5, <1>6, <1>7, <1>9, LiveStep

\* Trade.__exit__: the trade of the order is complete, and forgotten a step later.
LEMMA LiveExit ==
  ASSUME TypeInv, TypeInv', TrackedInv, NoControls, Lasts, StatusDone, LiveInv,
         NEW p \in Package, ExitTrade(p)
  PROVE  LiveInv'
<1>1. PICK n : n = Item(p).order
  OBVIOUS
<1>2. pkg[p].pc = "exit" /\ UNCHANGED <<status, trade, blotter, liveTrades>>
  BY DEF ExitTrade, orderVars
<1>3. pkg[p].work # <<>> /\ n # NoOrder /\ n \in blotter
  <2>1. pkg[p].work # <<>> /\ n # NoOrder
    BY <1>1, <1>2, ApplyingItem DEF Applying
  <2> QED
    BY <1>1, <2>1, ItemTracked
<1>4. Joins /\ Enters /\ Forgets /\ Outside
  BY <1>2, SameJoins DEF Forgets, Outside
<1>5. CASE AllComplete(trade[n], status) /\ Goto(p, "release")
  <2>1. Cleared(trade[n])
    BY <1>5, AllCompleteCleared DEF TrackedInv
  <2>2. Cleared(trade[n])'
    BY <1>3, <1>4, <2>1, ClearedKept DEF TrackedInv
  <2>3. Others(p) /\ pkg'[p].work = pkg[p].work
    BY <1>5, GotoFields
  <2>4. Item(p)' = Item(p)
    BY <2>3 DEF Item
  <2>5. trade'[Item(p)'.order] = trade'[n]
    BY <1>1, <2>4
  <2>6. Cleared(trade[Item(p).order])'
    BY <2>2, <2>5 DEF Cleared
  <2>7. ASSUME NEW q \in Package, pkg'[q].pc = "release"
        PROVE  \/ pkg[q].pc = "release" /\ pkg'[q].work = pkg[q].work
               \/ Cleared(trade[Item(q).order])'
    BY <2>3, <2>6, <2>7 DEF Others
  <2> QED
    BY <1>4, <2>7, LiveStep
<1>6. CASE NextItem(p)
  <2>1. Others(p) /\ pkg'[p].pc # "release"
    BY <1>6, NextFields
  <2> QED
    BY <1>2, <2>1, LiveQuiet
<1> QED
  BY <1>1, <1>5, <1>6 DEF ExitTrade

LEMMA LiveRelease ==
  ASSUME TypeInv, TypeInv', TrackedInv, Lasts, LiveInv, NEW p \in Package, ReleaseTrade(p)
  PROVE  LiveInv'
<1>1. PICK n : n = Item(p).order
  OBVIOUS
<1>2. /\ pkg[p].pc = "release" /\ UNCHANGED <<status, trade, blotter>> /\ NextItem(p)
      /\ liveTrades' = liveTrades \ {trade[n]}
  BY <1>1 DEF ReleaseTrade, CompleteTrade, orderVars
<1>3. pkg[p].work # <<>> /\ n # NoOrder /\ n \in blotter
  <2>1. pkg[p].work # <<>> /\ n # NoOrder
    BY <1>1, <1>2, ApplyingItem DEF Applying
  <2> QED
    BY <1>1, <2>1, ItemTracked
<1>4. Joins /\ Enters /\ Outside
  BY <1>2, SameJoins DEF Outside
<1>5. Cleared(trade[n])
  BY <1>1, <1>2 DEF LiveInv, ReleaseInv
<1>6. Cleared(trade[n])'
  BY <1>3, <1>4, <1>5, ClearedKept DEF TrackedInv
<1>7. Forgets
  <2>1. ASSUME NEW o \in blotter', trade'[o] = trade[n]
        PROVE  Settled(o)'
    <3>1. o \in Order /\ trade'[n] = trade[n]
      BY <1>2 DEF TypeInv, OrdersOK
    <3> QED
      BY <1>6, <2>1, <3>1 DEF Cleared
  <2>2. \A t \in liveTrades : t \in liveTrades' \/ t = trade[n]
    BY <1>2
  <2> QED
    BY <2>1, <2>2 DEF Forgets
<1>8. Others(p) /\ pkg'[p].pc # "release"
  BY <1>2, NextFields
<1>9. ASSUME NEW q \in Package, pkg'[q].pc = "release"
      PROVE  pkg[q].pc = "release" /\ pkg'[q].work = pkg[q].work
  BY <1>8, <1>9 DEF Others
<1> QED
  BY <1>4, <1>7, <1>9, LiveStep

-----------------------------------------------------------------------------
(* The steps of the main thread and of the exchange *)

\* No package changes.
LEMMA LiveMain ==
  ASSUME TypeInv, TypeInv', TrackedInv, Lasts, LiveInv, Joins, Forgets, Enters, Outside,
         pkg' = pkg
  PROVE  LiveInv'
<1>1. \A q \in Package : pkg'[q].pc = "release" =>
        pkg[q].pc = "release" /\ pkg'[q].work = pkg[q].work
  OBVIOUS
<1> QED
  BY <1>1, LiveStep

LEMMA LiveNew ==
  ASSUME TypeInv, TypeInv', TrackedInv, TrackedInv', SingleOrders, NoControls, Lasts, LiveInv,
         NEW o \in Order,
         (\E t \in Trade : CreateOrder(o, t)) \/ PlaceOrder(o) \/ RejectPlace(o)
  PROVE  LiveInv'
<1>1. ASSUME NEW t \in Trade, CreateOrder(o, t)
      PROVE  LiveInv'
  <2>1. t \in UnusedTrades
    BY <1>1 DEF CreateOrder, SingleOrders
  <2>2. \A n \in Order : trade[n] # t
    BY <2>1 DEF UnusedTrades
  <2>3. status[o] = "None"
    BY <1>1, FreshOrder DEF CreateOrder
  <2>4. /\ trade' = [trade EXCEPT ![o] = t] /\ status' = [status EXCEPT ![o] = "New"]
        /\ UNCHANGED <<blotter, liveTrades, pkg>>
    BY <1>1 DEF CreateOrder, tradeVars
  <2>5. o \notin blotter
    BY <2>3 DEF TrackedInv, BlotterInv
  <2>6. Joins
    BY <2>2, <2>3, <2>4, <2>5 DEF Joins, TypeInv, OrdersOK
  <2>7. Enters /\ Forgets
    BY <2>4 DEF Enters, Forgets
  <2>8. Outside
    BY <2>3, <2>4, StatusOutside
  <2> QED
    BY <2>4, <2>6, <2>7, <2>8, LiveMain
<1>2. CASE PlaceOrder(o)
  <2>1. /\ status[o] = "New" /\ status' = [status EXCEPT ![o] = "PENDING"]
        /\ blotter' = blotter \cup {o} /\ liveTrades' = liveTrades \cup {trade[o]}
        /\ UNCHANGED <<trade, pkg>>
    BY <1>2 DEF PlaceOrder
  <2>2. Joins /\ Enters /\ Forgets
    BY <2>1 DEF Joins, Enters, Forgets
  <2>3. Outside
    BY <2>1 DEF Outside, TypeInv, OrdersOK
  <2> QED
    BY <2>1, <2>2, <2>3, LiveMain
<1>3. CASE RejectPlace(o)
  <2>1. /\ status[o] = "New" /\ status' = [status EXCEPT ![o] = "VIOLATION"]
        /\ UNCHANGED <<trade, blotter, liveTrades, pkg>>
    BY <1>3 DEF RejectPlace, UpdateStatus, tradeVars
  <2>2. Joins /\ Enters /\ Forgets
    BY <2>1, SameJoins DEF Forgets
  <2>3. Outside
    BY <2>1, StatusOutside
  <2> QED
    BY <2>1, <2>2, <2>3, LiveMain
<1> QED
  BY <1>1, <1>2, <1>3

LEMMA LiveAsk ==
  ASSUME TypeInv, TypeInv', TrackedInv, TrackedInv', NoControls, Lasts, StatusDone', LiveInv,
         NEW o \in Order,
         CancelOrder(o) \/ UpdateOrder(o) \/ ReplaceOrder(o) \/ RejectRequest(o)
  PROVE  LiveInv'
<1>1. o \in blotter /\ UNCHANGED <<trade, blotter, pkg>>
  BY DEF CancelOrder, UpdateOrder, ReplaceOrder, RejectRequest, Request
<1>2. PICK s : UpdateStatus(o, s)
  BY DEF CancelOrder, UpdateOrder, ReplaceOrder, RejectRequest, Accept
<1>3. Joins /\ Enters
  BY <1>1, SameJoins
<1>4. Forgets
  BY <1>1, <1>2, UpdateForgets DEF TrackedInv
<1>5. status' = [status EXCEPT ![o] = s]
  BY <1>2 DEF UpdateStatus
<1>6. Outside
  BY <1>1, <1>5, StatusOutside
<1> QED
  BY <1>1, <1>3, <1>4, <1>6, LiveMain

LEMMA LiveExecute ==
  ASSUME TypeInv, TypeInv', TrackedInv, Lasts, LiveInv, NEW i \in 1..4, Execute(i)
  PROVE  LiveInv'
<1>1. UNCHANGED <<status, trade, blotter, liveTrades>>
  BY DEF Execute, orderVars, tradeVars
<1>2. PICK p \in Package : Others(p) /\ pkg'[p].pc = "queued"
  BY ExecuteFields
<1> QED
  BY <1>1, <1>2, LiveQuiet

LEMMA LiveQueue ==
  ASSUME TypeInv, TypeInv', TrackedInv, Lasts, LiveInv,
         \/ UNCHANGED vars \/ NextSnapshot \/ Snap
         \/ \E b \in Bets : SkipCurrentOrder(b) \/ ExchangeMatch(b)
  PROVE  LiveInv'
<1>1. UNCHANGED <<status, trade, blotter, liveTrades, pkg>>
  BY DEF vars, orderVars, tradeVars, NextSnapshot, Snap, SkipCurrentOrder, ExchangeMatch
<1>2. Joins /\ Enters /\ Forgets /\ Outside
  BY <1>1, SameJoins DEF Forgets, Outside
<1> QED
  BY <1>1, <1>2, LiveMain

LEMMA LiveProcess ==
  ASSUME TypeInv, TypeInv', TrackedInv, TrackedInv', NoControls, Lasts, StatusDone', LiveInv,
         NEW b \in Bets, ProcessCurrentOrder(b)
  PROVE  LiveInv'
<1>1. PICK o, s : o = OrderOf(b) /\ s = NewStatus(o, IF AsyncPlace /\ betId[o] = 0 THEN b ELSE betId[o], current[b])
  OBVIOUS
<1>2. /\ exch[b].ref \in blotter /\ o # NoOrder /\ UNCHANGED <<trade, blotter, pkg>>
      /\ IF s = status[o] THEN UNCHANGED <<status, tradeVars>> ELSE UpdateStatus(o, s)
  BY <1>1 DEF ProcessCurrentOrder
<1>3. o \in blotter
  BY <1>1, <1>2, OrderOfType
<1>4. Joins /\ Enters
  BY <1>2, SameJoins
<1>5. CASE UNCHANGED <<status, tradeVars>>
  <2>1. Forgets /\ Outside
    BY <1>2, <1>5 DEF Forgets, Outside, tradeVars
  <2> QED
    BY <1>2, <1>4, <2>1, LiveMain
<1>6. CASE UpdateStatus(o, s)
  <2>1. Forgets
    BY <1>2, <1>6, UpdateForgets DEF TrackedInv
  <2>2. status' = [status EXCEPT ![o] = s]
    BY <1>6 DEF UpdateStatus
  <2>3. Outside
    BY <1>2, <1>3, <2>2, StatusOutside
  <2> QED
    BY <1>2, <1>4, <2>1, <2>3, LiveMain
<1> QED
  BY <1>2, <1>5, <1>6

\* An order of before a restart: its trade is new.
LEMMA LiveFromCurrent ==
  ASSUME TypeInv, TypeInv', TrackedInv, Lasts, StatusDone', LiveInv, NEW b \in Bets,
         CreateOrderFromCurrent(b)
  PROVE  LiveInv'
<1>1. PICK o, t, s : /\ o = exch[b].ref /\ t = Fresh(UnusedTrades)
                     /\ s = IF current[b] > 0 THEN "EXECUTABLE" ELSE "EXECUTION_COMPLETE"
  OBVIOUS
<1>2. /\ b \in DOMAIN current /\ o \notin blotter /\ UnusedTrades # {}
      /\ trade' = [trade EXCEPT ![o] = t] /\ blotter' = blotter \cup {o}
      /\ status' = [status EXCEPT ![o] = s] /\ pkg' = pkg
      /\ IF s = "EXECUTION_COMPLETE" THEN liveTrades' = liveTrades \ {t}
         ELSE liveTrades' = liveTrades \cup {t}
  BY <1>1 DEF CreateOrderFromCurrent, CompleteTrade
<1>3. o \in Order /\ b \in 1..Len(exch)
  BY <1>1, <1>2, RecordTypes
<1>4. status[o] = "None"
  BY <1>1, <1>2, <1>3 DEF TrackedInv, BlotterInv
<1>5. t \notin liveTrades /\ \A n \in Order : trade[n] # t
  <2>1. t \in UnusedTrades
    BY <1>1, <1>2 DEF Fresh
  <2> QED
    BY <2>1 DEF UnusedTrades
<1>6. Joins
  BY <1>2, <1>3, <1>4, <1>5 DEF Joins, TypeInv, OrdersOK
<1>7. Forgets
  BY <1>2, <1>5 DEF Forgets
<1>8. Outside
  BY <1>2, <1>3, <1>4 DEF Outside, TypeInv, OrdersOK
<1>9. Enters
  <2>1. ASSUME NEW n \in blotter'
        PROVE  n \in blotter \/ trade'[n] \in liveTrades' \/ Settled(n)'
    <3>1. CASE n = o /\ s = "EXECUTION_COMPLETE"
      <4>1. status'[o] = "EXECUTION_COMPLETE"
        BY <1>2, <1>3, <3>1 DEF TypeInv, OrdersOK
      <4>2. \A x \in Order : status'[x] = "EXECUTION_COMPLETE" => Settled(x)'
        BY DEF StatusDone
      <4> QED
        BY <1>3, <3>1, <4>1, <4>2
    <3>2. CASE n = o /\ s # "EXECUTION_COMPLETE"
      BY <1>2, <1>3, <3>2 DEF TypeInv, OrdersOK
    <3> QED
      BY <1>2, <2>1, <3>1, <3>2
  <2> QED
    BY <2>1 DEF Enters
<1> QED
  BY <1>2, <1>6, <1>7, <1>8, <1>9, LiveMain

LEMMA LiveNothing ==
  ASSUME blotter = {}, pkg = [p \in Package |-> Idle]
  PROVE  LiveInv
BY DEF LiveInv, KeptInv, ReleaseInv, Idle

LEMMA LiveRestart ==
  ASSUME Restart
  PROVE  LiveInv'
BY DEF Restart, LiveInv, KeptInv, ReleaseInv, Idle

LEMMA LiveNext ==
  ASSUME TypeInv, TypeInv', TrackedInv, TrackedInv', BetInv, ViewInv, WaitInv,
         SingleOrders, NoControls, StatusDone, StatusDone', LiveInv, [Next]_vars
  PROVE  LiveInv'
<1>1. ASSUME NEW p \in Package, Thread(p) \/ RequestError(p) \/ RequestBroken(p)
      PROVE  LiveInv'
  <2>1. Lasts
    BY <1>1, LastsThread, LastsExchange DEF Thread
  <2>2. ~CreateReplacement(p) /\ ~SettleReplacement(p)
    BY DEF CreateReplacement, SettleReplacement, WaitInv, AnswersBy
  <2> QED
    BY <1>1, <2>1, <2>2, LiveThread, LiveApply, LiveExit, LiveRelease DEF Thread
<1>2. CASE Strategy \/ \E o \in Order : PlaceOrder(o) \/ RejectPlace(o)
  <2>1. Lasts
    BY <1>2, LastsMain DEF Strategy
  <2> QED
    BY <1>2, <2>1, LiveNew, LiveAsk DEF Strategy
<1>3. ASSUME NEW i \in 1..4, Execute(i)
      PROVE  LiveInv'
  BY <1>3, LastsMain, LiveExecute
<1>4. ASSUME NEW b \in Bets, ProcessCurrentOrder(b) \/ CreateOrderFromCurrent(b)
      PROVE  LiveInv'
  BY <1>4, LastsRecord, LiveProcess, LiveFromCurrent
<1>5. CASE UNCHANGED vars \/ NextSnapshot \/ Snap \/ \E b \in Bets : SkipCurrentOrder(b)
  BY <1>5, LastsMain, LiveQueue
<1>6. ASSUME NEW b \in Bets, ExchangeMatch(b)
      PROVE  LiveInv'
  BY <1>6, LastsRecord, LiveQueue
<1>7. CASE Restart
  BY <1>7, LiveRestart
<1> QED
  BY <1>1, <1>2, <1>3, <1>4, <1>5, <1>6, <1>7 DEF Next, Main

-----------------------------------------------------------------------------
(* How many trades are live *)

\* The bets are of orders of the blotter, so no trade comes back with a record;
\* validate_order bounds the others.
CountInv ==
  /\ \A b \in 1..Len(exch) : exch[b].ref \in blotter
  /\ IsFiniteSet(liveTrades) /\ Cardinality(liveTrades) <= MaxLiveTrades

LEMMA CountKept ==
  ASSUME TypeInv, CountInv, blotter \subseteq blotter',
         \A b \in 1..Len(exch') : exch'[b].ref \in blotter,
         \/ liveTrades' \subseteq liveTrades
         \/ \E t : ValidateOrder(t) /\ liveTrades' = liveTrades \cup {t}
  PROVE  CountInv'
<1>0. Cardinality(liveTrades) \in Nat /\ MaxLiveTrades \in Nat
  BY FS_CardinalityType, BoundAssumption DEF CountInv
<1>1. CASE liveTrades' \subseteq liveTrades
  <2>1. IsFiniteSet(liveTrades') /\ Cardinality(liveTrades') <= Cardinality(liveTrades)
    BY <1>1, FS_Subset DEF CountInv
  <2>2. Cardinality(liveTrades') \in Nat
    BY <2>1, FS_CardinalityType
  <2>3. Cardinality(liveTrades') <= MaxLiveTrades
    BY <1>0, <2>1, <2>2 DEF CountInv
  <2> QED
    BY <2>1, <2>3 DEF CountInv
<1>2. ASSUME NEW t, ValidateOrder(t), liveTrades' = liveTrades \cup {t}
      PROVE  CountInv'
  <2>1. /\ IsFiniteSet(liveTrades')
        /\ Cardinality(liveTrades') =
             IF t \in liveTrades THEN Cardinality(liveTrades) ELSE Cardinality(liveTrades) + 1
    BY <1>2, FS_AddElement DEF CountInv
  <2>2. Cardinality(liveTrades') <= MaxLiveTrades
    BY <1>0, <1>2, <2>1 DEF CountInv, ValidateOrder
  <2> QED
    BY <2>1, <2>2 DEF CountInv
<1> QED
  BY <1>1, <1>2

\* The exchange places bets for orders of the blotter.
LEMMA CountPlace ==
  ASSUME TypeInv, TypeInv', TrackedInv, CountInv, NEW p \in Package, ExchangePlace(p)
  PROVE  CountInv'
<1>1. PICK o : o = Head(pkg[p].instr).order
  OBVIOUS
<1>2. pkg[p].instr # <<>> /\ UNCHANGED <<blotter, liveTrades>> /\ Follows
  BY PlaceShape DEF Processing, orderVars, tradeVars
<1>3. exch' = exch \/ (Len(exch') = Len(exch) + 1 /\ exch'[Len(exch')].ref = o)
  BY <1>1, PlaceShape
<1>4. o \in blotter
  BY <1>1, <1>2, InstrHead DEF TrackedInv, HeldInv, HeldBy
<1>5. Len(exch) \in Nat
  BY DEF TypeInv, ExchangeOK
<1>6. \A b \in 1..Len(exch') : exch'[b].ref \in blotter
  BY <1>2, <1>3, <1>4, <1>5 DEF Follows, CountInv
<1> QED
  BY <1>2, <1>6, CountKept

LEMMA CountInit ==
  ASSUME Init
  PROVE  CountInv
<1>1. IsFiniteSet(liveTrades) /\ Cardinality(liveTrades) = 0
  BY FS_EmptySet DEF Init
<1> QED
  BY <1>1, BoundAssumption DEF Init, CountInv

LEMMA CountNext ==
  ASSUME TypeInv, TypeInv', TrackedInv, BetInv, WaitInv, MaxRestarts = 0, CountInv,
         [Next]_vars
  PROVE  CountInv'
<1>1. CASE \/ UNCHANGED vars \/ Snap \/ NextSnapshot
           \/ \E b \in Bets : SkipCurrentOrder(b)
           \/ \E i \in 1..4 : Execute(i)
           \/ \E o \in Order, t \in Trade : CreateOrder(o, t)
  <2>1. UNCHANGED <<exch, blotter, liveTrades>>
    BY <1>1 DEF vars, orderVars, tradeVars, Snap, NextSnapshot, SkipCurrentOrder, Execute,
         CreateOrder
  <2> QED
    BY <2>1, CountKept DEF CountInv
<1>2. ASSUME NEW o \in Order,
             \/ RejectPlace(o) \/ CancelOrder(o) \/ UpdateOrder(o) \/ ReplaceOrder(o)
             \/ RejectRequest(o)
      PROVE  CountInv'
  <2>1. UNCHANGED <<exch, blotter>>
    BY <1>2 DEF RejectPlace, CancelOrder, UpdateOrder, ReplaceOrder, RejectRequest, Request
  <2>2. \E s : UpdateStatus(o, s)
    BY <1>2 DEF RejectPlace, CancelOrder, UpdateOrder, ReplaceOrder, RejectRequest, Accept
  <2>3. liveTrades' \subseteq liveTrades
    BY <2>2 DEF UpdateStatus, CompleteTrade, tradeVars
  <2> QED
    BY <2>1, <2>3, CountKept DEF CountInv
<1>3. ASSUME NEW o \in Order, PlaceOrder(o)
      PROVE  CountInv'
  <2>1. /\ ValidateOrder(trade[o]) /\ liveTrades' = liveTrades \cup {trade[o]}
        /\ exch' = exch /\ blotter \subseteq blotter'
    BY <1>3 DEF PlaceOrder
  <2> QED
    BY <2>1, CountKept DEF CountInv
<1>4. ASSUME NEW b \in Bets, ProcessCurrentOrder(b)
      PROVE  CountInv'
  <2>1. UNCHANGED <<exch, blotter>> /\ liveTrades' \subseteq liveTrades
    BY <1>4 DEF ProcessCurrentOrder, UpdateStatus, CompleteTrade, tradeVars
  <2> QED
    BY <2>1, CountKept DEF CountInv
<1>5. ASSUME NEW b \in Bets, CreateOrderFromCurrent(b)
      PROVE  FALSE
  <2>1. b \in 1..Len(exch) /\ exch[b].ref \notin blotter
    BY <1>5, RecordTypes DEF CreateOrderFromCurrent
  <2> QED
    BY <2>1 DEF CountInv
<1>6. ASSUME NEW b \in Bets, ExchangeMatch(b)
      PROVE  CountInv'
  <2>1. PICK left \in 0..(exch[b].left - 1) : exch' = [exch EXCEPT ![b].left = left]
    BY <1>6 DEF ExchangeMatch
  <2>2. b \in 1..Len(exch) /\ exch[b].left \in 0..Size
    BY BetType DEF Bets
  <2>3. left \in 0..Size /\ left <= exch[b].left
    BY <2>2, BoundAssumption
  <2>4. /\ Len(exch') = Len(exch)
        /\ \A c \in 1..Len(exch) : exch'[c].ref = exch[c].ref
    BY <2>1, <2>2, <2>3, LessFollows
  <2>5. UNCHANGED <<blotter, liveTrades>>
    BY <1>6 DEF ExchangeMatch, orderVars, tradeVars
  <2> QED
    BY <2>4, <2>5, CountKept DEF CountInv
<1>7. ASSUME NEW p \in Package, ExchangeCancel(p) \/ ExchangeUpdate(p)
      PROVE  CountInv'
  <2>1. /\ Follows /\ Len(exch') = Len(exch)
        /\ UNCHANGED <<blotter, liveTrades>>
    BY <1>7, CancelShape, UpdateShape, SameFollows
    DEF ExchangeUpdate, Processing, orderVars, tradeVars
  <2> QED
    BY <2>1, CountKept DEF CountInv, Follows
<1>8. ASSUME NEW p \in Package, ExchangeReplace(p) \/ CreateReplacement(p) \/ SettleReplacement(p)
      PROVE  FALSE
  BY <1>8 DEF ExchangeReplace, Processing, CreateReplacement, SettleReplacement, WaitInv,
       AnswersBy
<1>9. ASSUME NEW p \in Package,
             \/ SendRequest(p) \/ AbandonRequest(p) \/ RequestError(p) \/ RequestBroken(p)
             \/ Reply(p) \/ EnterTrade(p) \/ Finish(p)
             \/ ApplyReport(p) \/ PassReport(p) \/ ClearUpdateData(p)
             \/ ExitTrade(p) \/ ReleaseTrade(p)
      PROVE  CountInv'
  <2>1. UNCHANGED <<exch, blotter>> /\ liveTrades' \subseteq liveTrades
    BY <1>9 DEF SendRequest, AbandonRequest, RequestError, RequestBroken, Reply, EnterTrade,
         Finish, ApplyReport, PassReport, ClearUpdateData, ExitTrade, ReleaseTrade,
         UpdateStatus, CompleteTrade, orderVars, tradeVars
  <2> QED
    BY <2>1, CountKept DEF CountInv
<1>10. ~Restart
  BY DEF Restart, TypeInv, CountsOK
<1> QED
  BY <1>1, <1>2, <1>3, <1>4, <1>5, <1>6, <1>7, <1>8, <1>9, <1>10, CountPlace
  DEF Next, Strategy, Main, Thread

-----------------------------------------------------------------------------
(* The theorems *)

LiveSafe ==
  /\ TypeInv /\ TrackedInv /\ BetInv /\ ViewInv
  /\ DoneInv /\ WaitInv /\ LiveInv

LEMMA LiveSafeInit ==
  ASSUME Init
  PROVE  LiveSafe
<1>1. TypeInv /\ TrackedInv /\ BetInv
  BY TypeInit, TrackedInit, BetNothing DEF Init
<1>2. \A b \in 1..Len(exch) : FALSE
  BY DEF Init
<1>3. ViewInv
  BY <1>2, ViewNothing DEF Init
<1>4. WaitInv /\ LiveInv
  BY WaitNothing, LiveNothing DEF Init
<1> QED
  BY <1>1, <1>3, <1>4, DoneInit DEF LiveSafe

LEMMA LiveSafeNext ==
  ASSUME NoControls, FullCancels, SingleOrders, LiveSafe, [Next]_vars
  PROVE  LiveSafe'
<1>0. Aligned /\ NoReplaces
  BY DEF NoControls, SingleOrders, Aligned
<1>1. TypeInv' /\ TrackedInv'
  BY TypeStep, TrackedNext DEF LiveSafe
<1>2. BetInv' /\ ViewInv'
  BY <1>0, <1>1, BetNext, ViewNext DEF LiveSafe
<1>3. DoneInv' /\ WaitInv'
  BY <1>0, <1>1, <1>2, DoneNext, WaitNext DEF LiveSafe
<1>4. LiveInv'
  BY <1>1, <1>3, LiveNext DEF LiveSafe, DoneInv
<1> QED
  BY <1>1, <1>2, <1>3, <1>4 DEF LiveSafe

LEMMA LiveTracked ==
  ASSUME LiveSafe
  PROVE  LiveBetTracked
<1> SUFFICES ASSUME NEW o \in Order, Left(o) > 0
             PROVE  trade[o] \in liveTrades
  BY DEF LiveBetTracked
<1>1. betId[o] # 0 /\ Left(o) = exch[betId[o]].left
  BY DEF Left
<1>2. o \in blotter
  BY <1>1 DEF LiveSafe, TrackedInv, BlotterInv
<1>3. ~Settled(o)
  BY <1>1 DEF Settled, Done, Empty
<1> QED
  BY <1>2, <1>3 DEF LiveSafe, LiveInv, KeptInv

\* A live bet belongs to a trade that validate_order counts (LiveBetTracked): the trade
\* is counted from place_order on, and RunnerContext.reset forgets it, from the main
\* thread or a pool thread, only when nothing is left of its bet.
THEOREM LiveBetTrackedSafe ==
  NoControls /\ FullCancels /\ SingleOrders => (Spec => []LiveBetTracked)
<1>1. Init => LiveSafe
  BY LiveSafeInit
<1>2. ASSUME NoControls, FullCancels, SingleOrders
      PROVE  LiveSafe /\ [Next]_vars => LiveSafe'
  BY <1>2, LiveSafeNext
<1>3. LiveSafe => LiveBetTracked
  BY LiveTracked
<1>4. CASE NoControls /\ FullCancels /\ SingleOrders
  BY <1>1, <1>2, <1>3, <1>4, PTL DEF Spec
<1> QED
  BY <1>4

\* strategy.max_live_trade_count bounds the trades that have a bet at the exchange
\* (LiveTradeBound), as long as the process is not restarted: create_order_from_current
\* adds trades without asking validate_order.
THEOREM LiveTradeBoundSafe ==
  NoControls /\ FullCancels /\ SingleOrders /\ MaxRestarts = 0 => (Spec => []LiveTradeBound)
<1> DEFINE Inv == LiveSafe /\ CountInv
<1>1. Init => Inv
  BY LiveSafeInit, CountInit
<1>2. ASSUME NoControls, FullCancels, SingleOrders, MaxRestarts = 0
      PROVE  Inv /\ [Next]_vars => Inv'
  BY <1>2, LiveSafeNext, CountNext DEF LiveSafe
<1>3. Inv => LiveTradeBound
  <2> SUFFICES ASSUME Inv PROVE LiveTradeBound
    OBVIOUS
  <2> DEFINE S == {t \in Trade : \E o \in Order : trade[o] = t /\ Left(o) > 0}
  <2>1. S \subseteq liveTrades
    BY LiveTracked DEF LiveBetTracked
  <2> HIDE DEF S
  <2>2. IsFiniteSet(S) /\ Cardinality(S) <= Cardinality(liveTrades)
    BY <2>1, FS_Subset DEF CountInv
  <2>3. Cardinality(S) \in Nat /\ Cardinality(liveTrades) \in Nat /\ MaxLiveTrades \in Nat
    BY <2>2, FS_CardinalityType, BoundAssumption DEF CountInv
  <2>4. Cardinality(S) <= MaxLiveTrades
    BY <2>2, <2>3 DEF CountInv
  <2> QED
    BY <2>4 DEF LiveTradeBound, S
<1> HIDE DEF Inv
<1>4. CASE NoControls /\ FullCancels /\ SingleOrders /\ MaxRestarts = 0
  BY <1>1, <1>2, <1>3, <1>4, PTL DEF Spec
<1> QED
  BY <1>4

-----------------------------------------------------------------------------
(* The inductive invariant of the ledger *)

\* The thread has still to take the bet and the size of report i of a place.
Unread(k, i) == k.type = "PLACE" /\ i \in 1..Len(Items(k)) /\ ~Spent(k, i)
\* The reports of a place are for its orders, in turn.
InTurn(k) ==
  k.type = "PLACE" => \E d \in Nat : \A i \in 1..Len(Items(k)) :
    d + i \in 1..Len(k.orders) /\ Items(k)[i].order = k.orders[d + i]
\* What is cancelled or updated has a bet, and so has an order that its report placed.
Placed(k) ==
  /\ k.type # "PLACE" => \A i \in 1..Len(k.work) :
       k.work[i].order # NoOrder => betId[k.work[i].order] # 0
  /\ k.type = "PLACE" /\ k.pc = "apply" /\ k.work[1].report.bet # 0 =>
       betId[k.work[1].order] # 0

\* An order has one bet.
OneBetInv ==
  /\ \A b, c \in 1..Len(exch) : exch[b].ref = exch[c].ref => b = c
  /\ \A o \in Order : OwnBet(o)
\* An order that no report and no record has told of has all its size left.
UntoldInv ==
  /\ \A o \in Order : o \notin seen /\ betId[o] = 0 => remaining[o] = Size
  /\ \A p \in Package : \A i : Unread(pkg[p], i) =>
       Items(pkg[p])[i].order \in seen \/ betId[Items(pkg[p])[i].order] = 0
TurnInv == \A p \in Package : InTurn(pkg[p]) /\ Placed(pkg[p])

\* A record says no more than what the order has left, or is to have by a report, and
\* no more than the records before it.
Falls(s) ==
  /\ \A b \in DOMAIN s : s[b] <= remaining[exch[b].ref]
  /\ \A p \in Package : \A i : Unread(pkg[p], i) =>
       (Items(pkg[p])[i].report.bet \in DOMAIN s =>
         s[Items(pkg[p])[i].report.bet] <= Items(pkg[p])[i].report.size)
Later(s, t) == \A b \in DOMAIN s : b \in DOMAIN t => t[b] <= s[b]
FallInv ==
  /\ Falls(current)
  /\ \A i \in 1..Len(queue) : Falls(queue[i]) /\ Later(current, queue[i])
  /\ \A i, j \in 1..Len(queue) : i < j => Later(queue[i], queue[j])

LedgerInv == OneBetInv /\ UntoldInv /\ TurnInv /\ FallInv

-----------------------------------------------------------------------------
(* What the steps have in common *)

\* A package has no reports to read that it did not have.
Keeps(p) ==
  \A i : Unread(pkg'[p], i) => \E j :
    /\ Unread(pkg[p], j)
    /\ Items(pkg'[p])[i].order = Items(pkg[p])[j].order
    /\ Items(pkg'[p])[i].report = Items(pkg[p])[j].report

LEMMA SameKeeps ==
  ASSUME NEW p \in Package, pkg'[p] = pkg[p]
  PROVE  Keeps(p)
BY DEF Keeps

LEMMA SnapshotBets ==
  ASSUME NEW n, NEW s \in SnapshotAt(n)
  PROVE  DOMAIN s \subseteq 1..n /\ \A b \in DOMAIN s : s[b] \in 0..Size
BY DEF SnapshotAt

LEMMA RecordBets ==
  ASSUME TypeInv
  PROVE  /\ DOMAIN current \subseteq 1..Len(exch)
         /\ \A b \in DOMAIN current : current[b] \in 0..Size
         /\ \A i \in 1..Len(queue) : /\ queue[i] \in SnapshotAt(Len(exch))
                                     /\ DOMAIN queue[i] \subseteq 1..Len(exch)
                                     /\ \A b \in DOMAIN queue[i] : queue[i][b] \in 0..Size
<1>1. current \in SnapshotAt(Len(exch)) /\ queue \in Seq(SnapshotAt(Len(exch)))
  BY DEF TypeInv, MainOK
<1>2. \A i \in 1..Len(queue) : queue[i] \in SnapshotAt(Len(exch))
  BY <1>1
<1> QED
  BY <1>1, <1>2, SnapshotBets

\* A record that was there says no more than before.
LEMMA FallsKept ==
  ASSUME TypeInv, Follows, NEW s, Falls(s), NEW t, DOMAIN t \subseteq DOMAIN s,
         DOMAIN s \subseteq 1..Len(exch),
         \A b \in DOMAIN t : t[b] = s[b],
         \A b \in DOMAIN t :
           remaining'[exch[b].ref] = remaining[exch[b].ref] \/ t[b] <= remaining'[exch[b].ref],
         \A p \in Package : \A i : Unread(pkg'[p], i) =>
           \/ \E j : /\ Unread(pkg[p], j)
                     /\ Items(pkg'[p])[i].report = Items(pkg[p])[j].report
           \/ Items(pkg'[p])[i].report.bet \notin 1..Len(exch)
  PROVE  /\ \A b \in DOMAIN t : t[b] <= remaining'[exch'[b].ref]
         /\ \A p \in Package : \A i : Unread(pkg'[p], i) =>
              (Items(pkg'[p])[i].report.bet \in DOMAIN t =>
                t[Items(pkg'[p])[i].report.bet] <= Items(pkg'[p])[i].report.size)
<1>1. \A b \in DOMAIN t : t[b] <= remaining'[exch'[b].ref]
  BY DEF Falls, Follows
<1>2. ASSUME NEW p \in Package, NEW i, Unread(pkg'[p], i),
             Items(pkg'[p])[i].report.bet \in DOMAIN t
      PROVE  t[Items(pkg'[p])[i].report.bet] <= Items(pkg'[p])[i].report.size
  <2>1. PICK j : /\ Unread(pkg[p], j)
                 /\ Items(pkg'[p])[i].report = Items(pkg[p])[j].report
    BY <1>2
  <2> QED
    BY <1>2, <2>1 DEF Falls
<1> QED
  BY <1>1, <1>2

\* The snapshots stay in the queue, and the records of the current one are processed.
LEMMA FallKept ==
  ASSUME TypeInv, Follows, FallInv, queue' = queue, DOMAIN current' \subseteq DOMAIN current,
         \A b \in DOMAIN current' : current'[b] = current[b],
         \A b \in 1..Len(exch) :
           \/ remaining'[exch[b].ref] = remaining[exch[b].ref]
           \/ /\ b \in DOMAIN current' => current[b] <= remaining'[exch[b].ref]
              /\ \A i \in 1..Len(queue) :
                   b \in DOMAIN queue[i] => queue[i][b] <= remaining'[exch[b].ref],
         \A p \in Package : \A i : Unread(pkg'[p], i) =>
           \/ \E j : /\ Unread(pkg[p], j)
                     /\ Items(pkg'[p])[i].report = Items(pkg[p])[j].report
           \/ Items(pkg'[p])[i].report.bet \notin 1..Len(exch)
  PROVE  FallInv'
<1>1. /\ DOMAIN current \subseteq 1..Len(exch)
      /\ \A i \in 1..Len(queue) : DOMAIN queue[i] \subseteq 1..Len(exch)
  BY RecordBets
<1>2. Falls(current)'
  <2>1. \A b \in DOMAIN current' :
          \/ remaining'[exch[b].ref] = remaining[exch[b].ref]
          \/ current'[b] <= remaining'[exch[b].ref]
    BY <1>1
  <2>2. PICK t : t = current'
    OBVIOUS
  <2>3. Falls(current) /\ DOMAIN current \subseteq 1..Len(exch)
    BY <1>1 DEF FallInv
  <2>4. /\ \A b \in DOMAIN t : t[b] <= remaining'[exch'[b].ref]
        /\ \A p \in Package : \A i : Unread(pkg'[p], i) =>
             (Items(pkg'[p])[i].report.bet \in DOMAIN t =>
               t[Items(pkg'[p])[i].report.bet] <= Items(pkg'[p])[i].report.size)
    <3>1. /\ DOMAIN t \subseteq DOMAIN current /\ \A b \in DOMAIN t : t[b] = current[b]
          /\ \A b \in DOMAIN t :
               remaining'[exch[b].ref] = remaining[exch[b].ref] \/ t[b] <= remaining'[exch[b].ref]
      BY <2>1, <2>2
    <3>2. Falls(t) /\ DOMAIN t \subseteq 1..Len(exch)
      BY <2>3, <3>1 DEF Falls
    <3> QED
      BY <3>1, <3>2, FallsKept
  <2> QED
    BY <2>2, <2>4 DEF Falls, Unread, Items, Spent
<1>3. ASSUME NEW n \in 1..Len(queue)
      PROVE  Falls(queue[n])'
  <2>1. PICK t : t = queue[n]
    OBVIOUS
  <2>2. \A b \in DOMAIN t :
          \/ remaining'[exch[b].ref] = remaining[exch[b].ref]
          \/ t[b] <= remaining'[exch[b].ref]
    BY <1>1, <2>1
  <2>3. Falls(t) /\ DOMAIN t \subseteq 1..Len(exch)
    BY <1>1, <2>1 DEF FallInv
  <2>4. /\ \A b \in DOMAIN t : t[b] <= remaining'[exch'[b].ref]
        /\ \A p \in Package : \A i : Unread(pkg'[p], i) =>
             (Items(pkg'[p])[i].report.bet \in DOMAIN t =>
               t[Items(pkg'[p])[i].report.bet] <= Items(pkg'[p])[i].report.size)
    BY <2>2, <2>3, FallsKept
  <2> QED
    BY <2>1, <2>4 DEF Falls, Unread, Items, Spent
<1>4. \A i \in 1..Len(queue) : Later(current', queue[i])
  BY DEF FallInv, Later
<1> QED
  BY <1>2, <1>3, <1>4 DEF FallInv, Later

\* A step that gives the orders what their bets and the records tell
LEMMA LedgerStep ==
  ASSUME TypeInv, TypeInv', LedgerInv, Follows, seen \subseteq seen',
         \A b \in 1..Len(exch') :
           \/ b \in 1..Len(exch)
           \/ b = Len(exch) + 1 /\ \A c \in 1..Len(exch) : exch[c].ref # exch'[b].ref,
         \A p \in Package : InTurn(pkg'[p]) /\ Placed(pkg[p])',
         \A p \in Package : \A i : Unread(pkg'[p], i) =>
           \/ Items(pkg'[p])[i].order \in seen'
           \/ betId'[Items(pkg'[p])[i].order] = 0,
         \A o \in Order :
           \/ betId'[o] = betId[o]
           \/ betId'[o] \in 1..Len(exch) /\ exch[betId'[o]].ref = o,
         \A o \in Order :
           remaining'[o] = remaining[o] \/ o \in seen' \/ betId'[o] # 0,
         \A o \in Order : betId[o] # 0 => betId'[o] # 0,
         FallInv'
  PROVE  LedgerInv'
<1>0. Len(exch) \in Nat /\ \A o \in Order : betId[o] \in 0..Len(exch)
  BY DEF TypeInv, ExchangeOK, OrdersOK
<1>1. OneBetInv'
  <2>1. ASSUME NEW b \in 1..Len(exch'), NEW c \in 1..Len(exch'), exch'[b].ref = exch'[c].ref
        PROVE  b = c
    <3>1. CASE b \in 1..Len(exch) /\ c \in 1..Len(exch)
      BY <2>1, <3>1 DEF Follows, LedgerInv, OneBetInv
    <3>2. CASE b \notin 1..Len(exch) \/ c \notin 1..Len(exch)
      BY <2>1, <3>2 DEF Follows
    <3> QED
      BY <3>1, <3>2
  <2>2. ASSUME NEW o \in Order, betId'[o] # 0
        PROVE  exch'[betId'[o]].ref = o
    <3>1. CASE betId'[o] = betId[o]
      BY <1>0, <2>2, <3>1 DEF Follows, LedgerInv, OneBetInv, OwnBet
    <3>2. CASE betId'[o] \in 1..Len(exch) /\ exch[betId'[o]].ref = o
      BY <3>2 DEF Follows
    <3> QED
      BY <3>1, <3>2
  <2> QED
    BY <2>1, <2>2 DEF OneBetInv, OwnBet
<1>2. UntoldInv'
  <2>1. \A o \in Order : o \notin seen' /\ betId'[o] = 0 => remaining'[o] = Size
    BY DEF LedgerInv, UntoldInv
  <2>3. \A p \in Package : \A i : Unread(pkg[p], i)' =>
          Items(pkg[p])'[i].order \in seen' \/ betId'[Items(pkg[p])'[i].order] = 0
    BY DEF Unread, Items, Spent
  <2> QED
    BY <2>1, <2>3 DEF UntoldInv
<1>3. TurnInv'
  BY DEF TurnInv, InTurn, Items
<1> QED
  BY <1>1, <1>2, <1>3 DEF LedgerInv

\* A step that tells the orders nothing
LEMMA LedgerSame ==
  ASSUME TypeInv, TypeInv', LedgerInv, Follows, Len(exch') = Len(exch),
         UNCHANGED <<seen, betId, remaining>>, FallInv',
         \A p \in Package : Keeps(p) /\ InTurn(pkg'[p]) /\ Placed(pkg[p])'
  PROVE  LedgerInv'
<1>1. ASSUME NEW p \in Package, NEW i, Unread(pkg'[p], i)
      PROVE  Items(pkg'[p])[i].order \in seen' \/ betId'[Items(pkg'[p])[i].order] = 0
  <2>1. PICK j : /\ Unread(pkg[p], j)
                 /\ Items(pkg'[p])[i].order = Items(pkg[p])[j].order
    BY <1>1 DEF Keeps
  <2>2. Items(pkg[p])[j].order \in seen \/ betId[Items(pkg[p])[j].order] = 0
    BY <2>1 DEF LedgerInv, UntoldInv
  <2> QED
    BY <2>1, <2>2
<1> QED
  BY <1>1, LedgerStep

\* The thread's steps that tell the orders nothing
LEMMA LedgerThread ==
  ASSUME TypeInv, TypeInv', LedgerInv, Follows, Len(exch') = Len(exch), NEW p \in Package,
         UNCHANGED <<seen, betId, remaining, queue, current>>,
         Others(p), Keeps(p), InTurn(pkg'[p]), Placed(pkg[p])'
  PROVE  LedgerInv'
<1>1. \A q \in Package : Keeps(q)
  BY SameKeeps DEF Others
<1>2. \A q \in Package : InTurn(pkg'[q])
  BY DEF Others, LedgerInv, TurnInv
<1>3. ASSUME NEW q \in Package
      PROVE  Placed(pkg[q])'
  <2>1. CASE q # p
    <3>1. pkg'[q] = pkg[q] /\ Placed(pkg[q])
      BY <2>1 DEF Others, LedgerInv, TurnInv
    <3> QED
      BY <3>1 DEF Placed
  <2> QED
    BY <2>1
<1>4. FallInv'
  <2>1. \A q \in Package : \A i : Unread(pkg'[q], i) =>
          \E j : /\ Unread(pkg[q], j)
                 /\ Items(pkg'[q])[i].report = Items(pkg[q])[j].report
    BY <1>1 DEF Keeps
  <2> QED
    BY <2>1, FallKept DEF LedgerInv
<1> QED
  BY <1>1, <1>2, <1>3, <1>4, LedgerSame

\* No package changes.
LEMMA LedgerMain ==
  ASSUME TypeInv, TypeInv', LedgerInv, Follows, Len(exch') = Len(exch), pkg' = pkg,
         UNCHANGED <<seen, betId, remaining>>, FallInv'
  PROVE  LedgerInv'
<1>1. \A q \in Package : Keeps(q) /\ InTurn(pkg'[q])
  BY SameKeeps DEF LedgerInv, TurnInv
<1>2. \A q \in Package : Placed(pkg[q])'
  BY DEF LedgerInv, TurnInv, Placed
<1> QED
  BY <1>1, <1>2, LedgerSame

-----------------------------------------------------------------------------
(* The threads *)

\* A package without reports
LEMMA LedgerEmpty ==
  ASSUME NEW p \in Package, Len(Items(pkg'[p])) = 0, pkg'[p].work = <<>>,
         pkg'[p].pc # "apply"
  PROVE  Keeps(p) /\ InTurn(pkg'[p]) /\ Placed(pkg[p])'
<1>1. \A i : ~Unread(pkg'[p], i)
  BY DEF Unread
<1>2. Keeps(p)
  BY <1>1 DEF Keeps
<1>3. InTurn(pkg'[p])
  BY DEF InTurn
<1>4. \A i \in 1..Len(pkg'[p].work) : FALSE
  OBVIOUS
<1>5. Placed(pkg[p])'
  BY <1>4 DEF Placed
<1> QED
  BY <1>2, <1>3, <1>5

LEMMA LedgerRequest ==
  ASSUME TypeInv, TypeInv', BetInv, LedgerInv, NEW p \in Package,
         \/ SendRequest(p) \/ AbandonRequest(p) \/ RequestError(p) \/ RequestBroken(p)
         \/ Finish(p)
  PROVE  LedgerInv'
<1>1. UNCHANGED <<seen, betId, remaining, queue, current, exch>>
  BY DEF SendRequest, AbandonRequest, RequestError, RequestBroken, Finish, orderVars, mainVars
<1>2. ShapeOK(pkg[p])
  BY DEF BetInv
<1>3. Others(p) /\ pkg'[p].work = <<>> /\ pkg'[p].pc \in {"free", "queued", "sent"}
  <2>1. CASE SendRequest(p)
    BY <1>2, <2>1, SendFields DEF SendRequest, ShapeOK
  <2>2. CASE AbandonRequest(p) \/ RequestBroken(p) \/ Finish(p)
    BY <2>2, LeaveFields DEF AbandonRequest, RequestBroken, Finish, Idle
  <2>3. CASE RequestError(p)
    <3>1. pkg[p].pc \in {"sent", "handled"}
      BY <2>3 DEF RequestError, SeenNothing, SeenAll
    <3>2. CASE RetryLeft(p)
      BY <1>2, <2>3, <3>1, <3>2, RetryFields DEF RequestError, ShapeOK
    <3>3. CASE ~RetryLeft(p)
      BY <2>3, <3>3, LeaveFields DEF RequestError, RetryOrGiveUp, Idle
    <3> QED
      BY <3>2, <3>3
  <2> QED
    BY <2>1, <2>2, <2>3
<1>4. Len(Items(pkg'[p])) = 0
  BY <1>3 DEF Items
<1>5. Keeps(p) /\ InTurn(pkg'[p]) /\ Placed(pkg[p])'
  BY <1>3, <1>4, LedgerEmpty
<1>6. Follows /\ Len(exch') = Len(exch)
  BY <1>1, SameFollows
<1> QED
  BY <1>1, <1>3, <1>5, <1>6, LedgerThread

\* The thread turns to its reports: those of a place are for the orders in turn, those
\* of a cancel or an update for orders with a bet.
LEMMA LedgerReply ==
  ASSUME TypeInv, TypeInv', TrackedInv, Aligned, BetInv, WaitInv, LedgerInv,
         NEW p \in Package, Reply(p)
  PROVE  LedgerInv'
<1>1. UNCHANGED <<seen, betId, remaining, queue, current, exch>>
  BY DEF Reply, orderVars, mainVars
<1>2. /\ pkg[p].pc \in {"sent", "handled"}
      /\ pkg[p].pc = "sent" => pkg[p].processed
      /\ Others(p)
      /\ pkg'[p].pc = "next" /\ pkg'[p].type = pkg[p].type
      /\ pkg'[p].orders = pkg[p].orders
  BY ReplyFields
<1>3. Items(pkg'[p]) = pkg'[p].work /\ ShapeOK(pkg[p])
  BY <1>2 DEF Items, BetInv
<1> DEFINE orders == LiveOrders(p)
           reports == IF pkg[p].processed THEN <<>> ELSE pkg[p].reports
<1>4. /\ orders \in Seq(Order) /\ reports \in Seq(ReportAt(Len(exch)))
      /\ \A i \in 1..Len(orders) : \E j \in 1..Len(pkg[p].orders) : orders[i] = pkg[p].orders[j]
  BY PackageFields, LiveOrdersType, LiveAligned
<1>5. Keeps(p) /\ InTurn(pkg'[p])
  <2>1. CASE pkg[p].type # "PLACE"
    BY <1>2, <2>1 DEF Keeps, Unread, InTurn
  <2>2. CASE pkg[p].type = "PLACE"
    <3>1. pkg'[p].work = Zip(orders, reports)
      BY <2>2, ReplyFields
    <3>2. CASE Len(orders) = 0 \/ Len(reports) = 0
      <4> HIDE DEF orders, reports
      <4>1. Len(Zip(orders, reports)) = 0
        <5>1. /\ Len(Zip(orders, reports)) \in Nat
              /\ Len(Zip(orders, reports)) <= Len(orders)
              /\ Len(Zip(orders, reports)) <= Len(reports)
          BY <1>4, ZipFields
        <5> QED
          BY <3>2, <5>1
      <4>2. \A i : ~Unread(pkg'[p], i)
        BY <1>3, <3>1, <4>1 DEF Unread
      <4> QED
        BY <1>3, <3>1, <4>1, <4>2 DEF Keeps, InTurn
    <3>3. CASE Len(orders) # 0 /\ Len(reports) # 0
      <4>1. orders = pkg[p].orders /\ reports = pkg[p].reports /\ pkg[p].pc = "handled"
        BY <1>2, <3>3, LiveAligned
      <4>2. Items(pkg'[p]) = Items(pkg[p])
        BY <1>3, <2>2, <3>1, <4>1, ItemsHandled
      <4>3. InTurn(pkg[p])
        BY DEF LedgerInv, TurnInv
      <4> QED
        BY <1>2, <4>1, <4>2, <4>3 DEF Keeps, Unread, Spent, InTurn
    <3> QED
      BY <3>2, <3>3
  <2> QED
    BY <2>1, <2>2
<1>6. Placed(pkg[p])'
  <2>1. CASE pkg[p].type = "PLACE"
    BY <1>2, <2>1 DEF Placed
  <2>2. CASE pkg[p].type # "PLACE"
    <3>1. \A i \in 1..Len(orders) : betId[orders[i]] # 0
      BY <1>4, <2>2, PackageFields
    <3>2. \A i \in 1..Len(pkg'[p].work) : pkg'[p].work[i].order # NoOrder =>
            \E j \in 1..Len(orders) : pkg'[p].work[i].order = orders[j]
      <4>1. CASE pkg[p].type = "CANCEL"
        BY <4>1, CancelItems
      <4>2. CASE pkg[p].type # "CANCEL"
        <5>1. pkg'[p].work = Zip(orders, reports)
          BY <4>2, ReplyFields
        <5> HIDE DEF orders, reports
        <5>2. /\ Len(Zip(orders, reports)) \in Nat
              /\ Len(Zip(orders, reports)) <= Len(orders)
              /\ \A i \in 1..Len(Zip(orders, reports)) : Zip(orders, reports)[i].order = orders[i]
          BY <1>4, ZipFields
        <5>3. Len(orders) \in Nat
          BY <1>4
        <5> QED
          BY <5>1, <5>2, <5>3
      <4> QED
        BY <4>1, <4>2
    <3> HIDE DEF orders, reports
    <3>3. \A i \in 1..Len(pkg'[p].work) : pkg'[p].work[i].order # NoOrder =>
            betId'[pkg'[p].work[i].order] # 0
      BY <1>1, <3>1, <3>2
    <3> QED
      BY <1>2, <2>2, <3>3 DEF Placed
  <2> QED
    BY <2>1, <2>2
<1>7. Follows /\ Len(exch') = Len(exch)
  BY <1>1, SameFollows
<1> QED
  BY <1>1, <1>2, <1>5, <1>6, <1>7, LedgerThread

\* The thread goes on with the report it has read, or turns to the next.
LEMMA LedgerWork ==
  ASSUME TypeInv, TypeInv', TrackedInv, BetInv, LedgerInv, NEW p \in Package,
         \/ ApplyReport(p) \/ PassReport(p) \/ ClearUpdateData(p)
         \/ ExitTrade(p) \/ ReleaseTrade(p)
  PROVE  LedgerInv'
<1>1. UNCHANGED <<seen, betId, remaining, queue, current, exch>>
  BY DEF ApplyReport, PassReport, ClearUpdateData, ExitTrade, ReleaseTrade, orderVars, mainVars
<1>2. /\ pkg[p].pc \in Applying
      /\ \/ \E pc \in Applying \ {"apply"} : Goto(p, pc)
         \/ NextItem(p)
  BY DEF ApplyReport, PassReport, ClearUpdateData, ExitTrade, ReleaseTrade, Applying
<1>3. /\ Others(p) /\ pkg'[p].type = pkg[p].type /\ pkg'[p].orders = pkg[p].orders
      /\ \/ pkg'[p].pc \in Applying \ {"apply"} /\ pkg'[p].work = pkg[p].work
         \/ pkg'[p].pc = "next" /\ pkg'[p].work = Tail(pkg[p].work)
  BY <1>2, GotoFields, NextFields
<1>4. /\ pkg[p].work # <<>> /\ Items(pkg[p]) = pkg[p].work /\ Items(pkg'[p]) = pkg'[p].work
  BY <1>2, <1>3, ApplyingItem DEF Items, Applying
<1>5. InTurn(pkg[p]) /\ Placed(pkg[p])
  BY DEF LedgerInv, TurnInv
<1>6. CASE pkg'[p].pc \in Applying \ {"apply"} /\ pkg'[p].work = pkg[p].work
  <2>1. Keeps(p)
    BY <1>2, <1>3, <1>4, <1>6 DEF Keeps, Unread, Spent, Applying
  <2>2. InTurn(pkg'[p])
    BY <1>3, <1>4, <1>5, <1>6 DEF InTurn
  <2>3. Placed(pkg[p])'
    BY <1>1, <1>3, <1>5, <1>6 DEF Placed, Applying
  <2> QED
    BY <1>1, <1>3, <2>1, <2>2, <2>3, SameFollows, LedgerThread
<1>7. CASE pkg'[p].pc = "next" /\ pkg'[p].work = Tail(pkg[p].work)
  <2> DEFINE t == Tail(pkg[p].work)
  <2>1. /\ Len(t) = Len(pkg[p].work) - 1 /\ Len(pkg[p].work) \in Nat
        /\ \A i \in 1..Len(t) : i + 1 \in 1..Len(pkg[p].work) /\ t[i] = pkg[p].work[i + 1]
    BY <1>4, WorkTail
  <2>2. pkg'[p].work = t
    BY <1>7
  <2> HIDE DEF t
  <2>3. Keeps(p)
    <3>1. ASSUME NEW i, Unread(pkg'[p], i)
          PROVE  /\ Unread(pkg[p], i + 1)
                 /\ Items(pkg'[p])[i].order = Items(pkg[p])[i + 1].order
                 /\ Items(pkg'[p])[i].report = Items(pkg[p])[i + 1].report
      <4>1. i \in 1..Len(t) /\ pkg[p].type = "PLACE" /\ i + 1 # 1
        BY <1>3, <1>4, <2>1, <2>2, <3>1 DEF Unread
      <4> QED
        BY <1>4, <2>1, <2>2, <4>1 DEF Unread, Spent
    <3> QED
      BY <3>1 DEF Keeps
  <2>4. InTurn(pkg'[p])
    <3>1. ASSUME pkg[p].type = "PLACE"
          PROVE  InTurn(pkg'[p])
      <4>1. PICK d \in Nat : \A i \in 1..Len(pkg[p].work) :
              d + i \in 1..Len(pkg[p].orders) /\ pkg[p].work[i].order = pkg[p].orders[d + i]
        BY <1>4, <1>5, <3>1 DEF InTurn
      <4>2. ASSUME NEW i \in 1..Len(t)
            PROVE  /\ (d + 1) + i \in 1..Len(pkg[p].orders)
                   /\ t[i].order = pkg[p].orders[(d + 1) + i]
        <5>1. d + (i + 1) = (d + 1) + i
          OBVIOUS
        <5> QED
          BY <2>1, <4>1, <5>1
      <4>3. d + 1 \in Nat
        OBVIOUS
      <4> QED
        BY <1>3, <1>4, <2>2, <4>2, <4>3 DEF InTurn
    <3> QED
      BY <1>3, <3>1 DEF InTurn
  <2>5. Placed(pkg[p])'
    BY <1>1, <1>3, <1>5, <1>7, <2>1, <2>2 DEF Placed
  <2> QED
    BY <1>1, <1>3, <2>3, <2>4, <2>5, SameFollows, LedgerThread
<1> QED
  BY <1>3, <1>6, <1>7

\* The exchange changes bets of orders, and reports of no place.
LEMMA LedgerCancel ==
  ASSUME TypeInv, TypeInv', BetInv, LedgerInv, NEW p \in Package,
         ExchangeCancel(p) \/ ExchangeUpdate(p)
  PROVE  LedgerInv'
<1>1. /\ \E type \in {"CANCEL", "UPDATE"} : Processing(p, type)
      /\ \E rep : Answer(p, rep)
      /\ Follows /\ Len(exch') = Len(exch)
  BY CancelShape, UpdateShape, SameFollows
<1>2. /\ UNCHANGED <<seen, betId, remaining, queue, current>>
      /\ pkg[p].type # "PLACE" /\ pkg[p].pc \in {"sent", "handled"}
  BY <1>1 DEF Processing, orderVars, mainVars
<1>3. /\ Others(p) /\ pkg'[p].type = pkg[p].type /\ pkg'[p].work = pkg[p].work
  BY <1>1, AnswerFields
<1>4. Keeps(p) /\ InTurn(pkg'[p])
  BY <1>2, <1>3 DEF Keeps, Unread, InTurn
<1>5. Placed(pkg[p])'
  BY <1>2, <1>3 DEF LedgerInv, TurnInv, Placed
<1> QED
  BY <1>1, <1>2, <1>3, <1>4, <1>5, LedgerThread

\* The unread reports of two threads, or of one, are for different orders.
LEMMA UnreadApart ==
  ASSUME OnceInv, NEW p \in Package, NEW q \in Package, InTurn(pkg[p]), InTurn(pkg[q]),
         NEW i, NEW j, Unread(pkg[p], i), Unread(pkg[q], j),
         Items(pkg[p])[i].order = Items(pkg[q])[j].order
  PROVE  p = q /\ i = j
<1>1. PICK d \in Nat : \A n \in 1..Len(Items(pkg[p])) :
        d + n \in 1..Len(pkg[p].orders) /\ Items(pkg[p])[n].order = pkg[p].orders[d + n]
  BY DEF InTurn, Unread
<1>2. PICK e \in Nat : \A n \in 1..Len(Items(pkg[q])) :
        e + n \in 1..Len(pkg[q].orders) /\ Items(pkg[q])[n].order = pkg[q].orders[e + n]
  BY DEF InTurn, Unread
<1>3. i \in 1..Len(Items(pkg[p])) /\ j \in 1..Len(Items(pkg[q]))
  BY DEF Unread
<1>4. p = q /\ d + i = e + j
  <2>1. /\ d + i \in 1..Len(pkg[p].orders) /\ e + j \in 1..Len(pkg[q].orders)
        /\ pkg[p].orders[d + i] = pkg[q].orders[e + j]
    BY <1>1, <1>2, <1>3
  <2>2. pkg[p].type = "PLACE" /\ pkg[q].type = "PLACE"
    BY DEF Unread
  <2> QED
    BY <2>1, <2>2 DEF OnceInv
<1>5. pkg[p].orders[d + i] = pkg[q].orders[d + j]
  BY <1>1, <1>3, <1>4
<1>6. d + j \in 1..Len(pkg[q].orders)
  BY <1>1, <1>3, <1>4
<1>7. d + i = d + j
  BY <1>1, <1>3, <1>4, <1>5, <1>6 DEF OnceInv, Unread
<1> QED
  BY <1>3, <1>4, <1>7

LEMMA UnreadOrder ==
  ASSUME TypeInv, NEW p \in Package, InTurn(pkg[p]), NEW i, Unread(pkg[p], i)
  PROVE  Items(pkg[p])[i].order \in Order
<1>1. PICK d \in Nat : \A n \in 1..Len(Items(pkg[p])) :
        d + n \in 1..Len(pkg[p].orders) /\ Items(pkg[p])[n].order = pkg[p].orders[d + n]
  BY DEF InTurn, Unread
<1>2. pkg[p].orders \in Seq(Order)
  BY PackageFields
<1> QED
  BY <1>1, <1>2 DEF Unread

\* A report of a place tells the order its bet and what is left of it.
LEMMA LedgerEnter ==
  ASSUME TypeInv, TypeInv', TrackedInv, BetInv, ViewInv, LedgerInv, NEW p \in Package,
         EnterTrade(p)
  PROVE  LedgerInv'
<1> DEFINE o == Item(p).order
           r == Item(p).report
<1>1. /\ pkg[p].pc = "next" /\ pkg[p].work # <<>> /\ o # NoOrder
      /\ TakesUp(p, "apply", o)
      /\ UNCHANGED <<seen, queue, current, exch>>
  BY DEF EnterTrade, TakesUp, mainVars
<1>2. /\ Others(p) /\ pkg'[p].pc = "apply" /\ pkg'[p].type = pkg[p].type
      /\ pkg'[p].orders = pkg[p].orders /\ pkg'[p].work = pkg[p].work
  BY <1>1, SubjectFields
<1>3. /\ Items(pkg[p]) = pkg[p].work /\ Items(pkg'[p]) = pkg[p].work
      /\ pkg[p].work[1].order = o /\ pkg[p].work[1].report = r
      /\ 1 \in 1..Len(pkg[p].work)
  BY <1>1, <1>2, ItemHead DEF Items
<1>4. /\ \A q \in Package : InTurn(pkg[q]) /\ Placed(pkg[q])
      /\ Follows /\ Len(exch') = Len(exch)
  BY <1>1, SameFollows DEF LedgerInv, TurnInv
<1>5. InTurn(pkg'[p])
  BY <1>2, <1>3, <1>4 DEF InTurn
<1>6. CASE pkg[p].type # "PLACE"
  <2>1. UNCHANGED <<betId, remaining>>
    BY <1>6 DEF EnterTrade
  <2>2. Keeps(p)
    BY <1>2, <1>6 DEF Keeps, Unread
  <2>3. Placed(pkg[p])'
    BY <1>2, <1>4, <1>6, <2>1 DEF Placed
  <2> QED
    BY <1>1, <1>2, <1>4, <1>5, <2>1, <2>2, <2>3, LedgerThread
<1>7. CASE pkg[p].type = "PLACE"
  <2>1. /\ betId' = IF r.bet = 0 THEN betId ELSE [betId EXCEPT ![o] = r.bet]
        /\ remaining' = [remaining EXCEPT ![o] = PlacedRemaining(o, r)]
    BY <1>7 DEF EnterTrade
  <2>2. /\ ReportOK("PLACE", r) /\ r.size \in 0..Size
        /\ r.bet # 0 => r.bet \in 1..Len(exch) /\ exch[r.bet].ref = o /\ betId[o] = 0
    BY <1>1, <1>7, HeadClaim
  <2>3. /\ o \in Order /\ r.bet \in 0..Len(exch)
        /\ betId \in [Order -> 0..Len(exch)] /\ remaining \in [Order -> 0..Size]
    BY <1>1, ItemType DEF TypeInv, OrdersOK
  <2> HIDE DEF o, r
  <2>4. /\ \A x \in Order \ {o} : betId'[x] = betId[x] /\ remaining'[x] = remaining[x]
        /\ betId'[o] = IF r.bet = 0 THEN betId[o] ELSE r.bet
        /\ remaining'[o] = IF o \in seen THEN remaining[o] ELSE r.size
    BY <2>1, <2>3 DEF PlacedRemaining
  <2>5. Unread(pkg[p], 1) /\ Items(pkg[p])[1].order = o /\ Items(pkg[p])[1].report = r
    BY <1>1, <1>3, <1>7 DEF Unread, Spent
  <2>6. ASSUME NEW q \in Package, NEW i, Unread(pkg'[q], i)
        PROVE  /\ Unread(pkg[q], i) /\ Items(pkg'[q]) = Items(pkg[q])
               /\ Items(pkg[q])[i].order # o
    <3>1. CASE q = p
      <4>1. i # 1 /\ i \in 1..Len(pkg[p].work)
        BY <1>2, <1>3, <1>7, <2>6, <3>1 DEF Unread, Spent
      <4>2. Unread(pkg[p], i)
        BY <1>3, <1>7, <4>1 DEF Unread, Spent
      <4> QED
        BY <1>3, <1>4, <2>5, <3>1, <4>1, <4>2, UnreadApart DEF ViewInv
    <3>2. CASE q # p
      <4>1. pkg'[q] = pkg[q]
        BY <1>2, <3>2 DEF Others
      <4>2. Unread(pkg[q], i)
        BY <2>6, <4>1
      <4> QED
        BY <1>4, <2>5, <3>2, <4>1, <4>2, UnreadApart DEF ViewInv
    <3> QED
      BY <3>1, <3>2
  <2>7. \A q \in Package : \A i : Unread(pkg'[q], i) =>
          \/ Items(pkg'[q])[i].order \in seen'
          \/ betId'[Items(pkg'[q])[i].order] = 0
    <3>1. ASSUME NEW q \in Package, NEW i, Unread(pkg'[q], i),
                 Items(pkg'[q])[i].order \notin seen'
          PROVE  betId'[Items(pkg'[q])[i].order] = 0
      <4>1. PICK x : x = Items(pkg[q])[i].order
        OBVIOUS
      <4>2. x # o /\ betId[x] = 0 /\ Items(pkg'[q])[i].order = x
        BY <1>1, <2>6, <3>1, <4>1 DEF LedgerInv, UntoldInv
      <4>3. x \in Order
        BY <1>4, <2>6, <3>1, <4>1, UnreadOrder
      <4> QED
        BY <2>4, <4>2, <4>3
    <3> QED
      BY <3>1
  <2>8. \A x \in Order :
          \/ betId'[x] = betId[x]
          \/ betId'[x] \in 1..Len(exch) /\ exch[betId'[x]].ref = x
    BY <2>2, <2>4
  <2>9. o \notin seen /\ r.bet = 0 => remaining'[o] = remaining[o]
    <3>1. o \in seen \/ betId[o] = 0
      <4>1. Items(pkg[p])[1].order \in seen \/ betId[Items(pkg[p])[1].order] = 0
        BY <2>5 DEF LedgerInv, UntoldInv
      <4> QED
        BY <2>5, <4>1
    <3>2. o \notin seen /\ betId[o] = 0 => remaining[o] = Size
      BY <2>3 DEF LedgerInv, UntoldInv
    <3> QED
      BY <2>2, <2>4, <3>1, <3>2 DEF ReportOK
  <2>10. \A x \in Order : remaining'[x] = remaining[x] \/ x \in seen' \/ betId'[x] # 0
    BY <1>1, <2>4, <2>9
  <2>11. \A x \in Order : betId[x] # 0 => betId'[x] # 0
    BY <2>4
  <2>12. \A q \in Package : InTurn(pkg'[q])
    BY <1>2, <1>4, <1>5 DEF Others
  <2>13. ASSUME NEW q \in Package
         PROVE  Placed(pkg[q])'
    <3>1. CASE q = p
      <4>1. pkg[p].work[1].report.bet # 0 => betId'[pkg[p].work[1].order] # 0
        BY <1>3, <2>4
      <4> QED
        BY <1>2, <1>7, <3>1, <4>1 DEF Placed
    <3>2. CASE q # p
      <4>1. pkg'[q] = pkg[q] /\ Placed(pkg[q])
        BY <1>2, <1>4, <3>2 DEF Others
      <4>2. \A i \in 1..Len(pkg[q].work) :
              pkg[q].work[i].order # NoOrder => pkg[q].work[i].order \in Order
        <5>1. pkg[q].work \in Seq(WorkAt(Len(exch)))
          BY PackageFields
        <5>2. \A i \in 1..Len(pkg[q].work) : pkg[q].work[i] \in WorkAt(Len(exch))
          BY <5>1
        <5> QED
          BY <5>2 DEF WorkAt
      <4>3. pkg[q].pc = "apply" => pkg[q].work[1].order \in Order
        <5>1. ASSUME pkg[q].pc = "apply"
              PROVE  pkg[q].work[1].order \in Order
          BY <5>1, ApplyingItem, ItemHead DEF Applying
        <5> QED
          BY <5>1
      <4> QED
        BY <2>11, <4>1, <4>2, <4>3 DEF Placed
    <3> QED
      BY <3>1, <3>2
  <2>14. ASSUME NEW s, Falls(s), NEW b \in 1..Len(exch), b \in DOMAIN s
         PROVE  \/ remaining'[exch[b].ref] = remaining[exch[b].ref]
                \/ s[b] <= remaining'[exch[b].ref]
    <3>1. exch[b].ref \in Order
      BY BetType
    <3>2. CASE exch[b].ref # o \/ o \in seen \/ r.bet = 0
      BY <2>4, <2>9, <3>1, <3>2
    <3>3. CASE exch[b].ref = o /\ o \notin seen /\ r.bet # 0
      <4>1. b = r.bet
        BY <2>2, <3>3 DEF LedgerInv, OneBetInv
      <4>2. s[b] <= r.size
        BY <2>5, <2>14, <4>1 DEF Falls
      <4> QED
        BY <2>4, <3>3, <4>2
    <3> QED
      BY <3>2, <3>3
  <2>15. FallInv'
    <3>1. \A q \in Package : \A i : Unread(pkg'[q], i) =>
            \E j : /\ Unread(pkg[q], j)
                   /\ Items(pkg'[q])[i].report = Items(pkg[q])[j].report
      BY <2>6
    <3>2. /\ Falls(current) /\ DOMAIN current \subseteq 1..Len(exch)
          /\ \A i \in 1..Len(queue) : Falls(queue[i])
      BY RecordBets DEF LedgerInv, FallInv
    <3>3. \A b \in 1..Len(exch) :
           \/ remaining'[exch[b].ref] = remaining[exch[b].ref]
           \/ /\ b \in DOMAIN current => current[b] <= remaining'[exch[b].ref]
              /\ \A i \in 1..Len(queue) :
                   b \in DOMAIN queue[i] => queue[i][b] <= remaining'[exch[b].ref]
      BY <2>14, <3>2
    <3> QED
      BY <1>1, <1>4, <3>1, <3>3, FallKept DEF LedgerInv
  <2>16. \A q \in Package : InTurn(pkg'[q]) /\ Placed(pkg[q])'
    BY <2>12, <2>13
  <2>17. \A b \in 1..Len(exch') : b \in 1..Len(exch)
    BY <1>4
  <2> QED
    BY <1>1, <1>4, <2>7, <2>8, <2>10, <2>11, <2>15, <2>16, <2>17, LedgerStep
<1> QED
  BY <1>6, <1>7

\* The exchange places a bet for an order that has none, or not, and reports it last.
LEMMA LedgerPlace ==
  ASSUME TypeInv, TypeInv', TrackedInv, BetInv, ViewInv, LedgerInv, NEW p \in Package,
         ExchangePlace(p)
  PROVE  LedgerInv'
<1> DEFINE n == Len(pkg[p].reports)
<1>1. /\ Processing(p, "PLACE") /\ Follows
      /\ UNCHANGED <<seen, betId, remaining, queue, current>>
  BY PlaceShape DEF Processing, orderVars, mainVars
<1>2. PICK r : /\ Answer(p, <<r>>) /\ r.new = 0
               /\ \/ /\ exch' = exch /\ r.bet = 0 /\ r.size = Size
                     /\ r.status \in {"FAILURE", "TIMEOUT"}
                  \/ /\ Len(exch') = Len(exch) + 1
                     /\ exch'[Len(exch')].ref = Head(pkg[p].instr).order
                     /\ exch'[Len(exch')].left \in 0..Size
                     /\ \/ /\ ~AsyncPlace /\ r.status = "SUCCESS"
                           /\ r.bet = Len(exch') /\ r.size = exch'[Len(exch')].left
                        \/ r.bet = 0 /\ r.size = Size /\ r.status # "FAILURE"
  BY PlaceShape
<1>3. PICK o : o = Head(pkg[p].instr).order
  OBVIOUS
<1>4. NoBetYet(o) /\ Len(exch) \in Nat
  BY <1>3, PlacedOnce DEF TypeInv, ExchangeOK
<1>5. /\ pkg[p].type = "PLACE" /\ pkg[p].pc \in {"sent", "handled"} /\ pkg[p].instr # <<>>
      /\ ReportOK("PLACE", r) /\ r.bet \notin 1..Len(exch)
  BY <1>1, <1>2, <1>4 DEF Processing, ReportOK
<1>6. /\ Others(p) /\ pkg'[p].pc = "handled" /\ pkg'[p].type = "PLACE"
      /\ pkg'[p].orders = pkg[p].orders
  BY <1>2, <1>5, AnswerFields
<1>7. /\ n \in Nat /\ Len(Items(pkg[p])) = n /\ Len(Items(pkg'[p])) = n + 1
      /\ \A i \in 1..n : /\ Items(pkg'[p])[i].order = Items(pkg[p])[i].order
                         /\ Items(pkg'[p])[i].report = Items(pkg[p])[i].report
      /\ Items(pkg'[p])[n + 1].order = o /\ Items(pkg'[p])[n + 1].report = r
  BY <1>2, <1>3, <1>5, AnswerItems
<1>8. /\ n + 1 \in 1..Len(pkg[p].orders) /\ o = pkg[p].orders[n + 1]
      /\ \A i \in 1..n : Items(pkg[p])[i].order = pkg[p].orders[i]
      /\ pkg[p].pc = "sent" => n = 0
  <2>1. ShapeOK(pkg[p])
    BY DEF BetInv
  <2>2. pkg[p].pc = "sent" => n = 0
    BY <2>1 DEF ShapeOK
  <2>3. pkg[p].pc = "handled" => \A i \in 1..n : Items(pkg[p])[i].order = pkg[p].orders[i]
    BY <1>5, <2>1, ItemsHandled
  <2> QED
    BY <1>3, <1>5, <2>2, <2>3, InstrOrder
<1> HIDE DEF n
<1>9. InTurn(pkg'[p])
  <2>1. \A i \in 1..Len(Items(pkg'[p])) :
          0 + i \in 1..Len(pkg[p].orders) /\ Items(pkg'[p])[i].order = pkg[p].orders[0 + i]
    <3>1. ASSUME NEW i \in 1..(n + 1)
          PROVE  i \in 1..Len(pkg[p].orders) /\ Items(pkg'[p])[i].order = pkg[p].orders[i]
      <4>1. Len(pkg[p].orders) \in Nat
        BY PackageFields
      <4>2. CASE i \in 1..n
        BY <1>7, <1>8, <4>1, <4>2
      <4>3. CASE i = n + 1
        BY <1>7, <1>8, <4>3
      <4> QED
        BY <1>7, <4>2, <4>3
    <3>2. \A i \in 1..(n + 1) : 0 + i = i
      BY <1>7
    <3> QED
      BY <1>7, <3>1, <3>2
  <2> QED
    BY <1>6, <2>1 DEF InTurn
<1>10. \A q \in Package : InTurn(pkg'[q])
  BY <1>6, <1>9 DEF Others, LedgerInv, TurnInv
<1>11. ASSUME NEW q \in Package
       PROVE  Placed(pkg[q])'
  <2>1. CASE q = p
    BY <1>6, <2>1 DEF Placed
  <2>2. CASE q # p
    <3>1. pkg'[q] = pkg[q] /\ Placed(pkg[q])
      BY <1>6, <2>2 DEF Others, LedgerInv, TurnInv
    <3> QED
      BY <1>1, <3>1 DEF Placed
  <2> QED
    BY <2>1, <2>2
<1>12. ASSUME NEW q \in Package, NEW i, Unread(pkg'[q], i)
       PROVE  \/ /\ Unread(pkg[q], i)
                 /\ Items(pkg'[q])[i].order = Items(pkg[q])[i].order
                 /\ Items(pkg'[q])[i].report = Items(pkg[q])[i].report
              \/ Items(pkg'[q])[i].order = o /\ Items(pkg'[q])[i].report = r
  <2>1. CASE q = p
    <3>1. i \in 1..(n + 1)
      BY <1>7, <1>12, <2>1 DEF Unread
    <3>2. CASE i \in 1..n
      <4>1. pkg[p].pc = "handled"
        BY <1>5, <1>8, <3>2
      <4>2. Unread(pkg[p], i)
        BY <1>5, <1>7, <3>2, <4>1 DEF Unread, Spent
      <4> QED
        BY <1>7, <2>1, <3>2, <4>2
    <3>3. CASE i = n + 1
      BY <1>7, <2>1, <3>3
    <3> QED
      BY <1>7, <3>1, <3>2, <3>3
  <2>2. CASE q # p
    BY <1>6, <1>12, <2>2 DEF Others
  <2> QED
    BY <2>1, <2>2
<1>13. \A q \in Package : \A i : Unread(pkg'[q], i) =>
         \/ Items(pkg'[q])[i].order \in seen'
         \/ betId'[Items(pkg'[q])[i].order] = 0
  <2>1. ASSUME NEW q \in Package, NEW i, Unread(pkg'[q], i)
        PROVE  \/ Items(pkg'[q])[i].order \in seen
               \/ betId[Items(pkg'[q])[i].order] = 0
    <3>1. CASE Items(pkg'[q])[i].order = o
      BY <1>4, <3>1 DEF NoBetYet
    <3>2. CASE Unread(pkg[q], i) /\ Items(pkg'[q])[i].order = Items(pkg[q])[i].order
      <4>1. Items(pkg[q])[i].order \in seen \/ betId[Items(pkg[q])[i].order] = 0
        BY <3>2 DEF LedgerInv, UntoldInv
      <4> QED
        BY <3>2, <4>1
    <3> QED
      BY <1>12, <2>1, <3>1, <3>2
  <2> QED
    BY <1>1, <2>1
<1>14. FallInv'
  <2>1. \A q \in Package : \A i : Unread(pkg'[q], i) =>
          \/ \E j : /\ Unread(pkg[q], j)
                    /\ Items(pkg'[q])[i].report = Items(pkg[q])[j].report
          \/ Items(pkg'[q])[i].report.bet \notin 1..Len(exch)
    <3>1. ASSUME NEW q \in Package, NEW i, Unread(pkg'[q], i),
                 Items(pkg'[q])[i].report.bet \in 1..Len(exch)
          PROVE  \E j : /\ Unread(pkg[q], j)
                        /\ Items(pkg'[q])[i].report = Items(pkg[q])[j].report
      BY <1>5, <1>12, <3>1
    <3> QED
      BY <3>1
  <2> QED
    BY <1>1, <2>1, FallKept DEF LedgerInv
<1>15. \A b \in 1..Len(exch') :
         \/ b \in 1..Len(exch)
         \/ b = Len(exch) + 1 /\ \A c \in 1..Len(exch) : exch[c].ref # exch'[b].ref
  BY <1>2, <1>3, <1>4 DEF NoBetYet
<1> QED
  BY <1>1, <1>10, <1>11, <1>13, <1>14, <1>15, LedgerStep

\* The steps of the threads
LEMMA LedgerThreads ==
  ASSUME TypeInv, TypeInv', TrackedInv, Aligned, BetInv, ViewInv, WaitInv, LedgerInv,
         NEW p \in Package, Thread(p) \/ RequestError(p) \/ RequestBroken(p)
  PROVE  LedgerInv'
<1>1. pkg[p].type # "REPLACE" /\ pkg[p].pc \notin {"create", "settle"}
  BY DEF WaitInv, AnswersBy
<1>2. ~ExchangeReplace(p) /\ ~CreateReplacement(p) /\ ~SettleReplacement(p)
  BY <1>1 DEF ExchangeReplace, Processing, CreateReplacement, SettleReplacement
<1> QED
  BY <1>2, LedgerRequest, LedgerPlace, LedgerCancel, LedgerReply, LedgerEnter, LedgerWork
     DEF Thread

-----------------------------------------------------------------------------
(* The main thread and the market *)

\* No package and no order changes, and records are only processed.
LEMMA LedgerQuiet ==
  ASSUME TypeInv, TypeInv', LedgerInv, Follows, Len(exch') = Len(exch),
         UNCHANGED <<pkg, seen, betId, remaining, queue>>,
         DOMAIN current' \subseteq DOMAIN current,
         \A b \in DOMAIN current' : current'[b] = current[b]
  PROVE  LedgerInv'
<1>1. \A q \in Package : \A i : Unread(pkg'[q], i) =>
        \E j : /\ Unread(pkg[q], j)
               /\ Items(pkg'[q])[i].report = Items(pkg[q])[j].report
  OBVIOUS
<1>2. FallInv'
  BY <1>1, FallKept DEF LedgerInv
<1> QED
  BY <1>2, LedgerMain

LEMMA LedgerStrategy ==
  ASSUME TypeInv, TypeInv', LedgerInv,
         \/ Strategy \/ UNCHANGED vars
         \/ \E o \in Order : PlaceOrder(o) \/ RejectPlace(o)
         \/ \E b \in Bets : SkipCurrentOrder(b)
  PROVE  LedgerInv'
<1>1. CASE Strategy \/ UNCHANGED vars \/ \E o \in Order : PlaceOrder(o) \/ RejectPlace(o)
  <2>1. UNCHANGED <<pkg, seen, betId, remaining, queue, current, exch>>
    BY <1>1 DEF Strategy, CreateOrder, CancelOrder, UpdateOrder, ReplaceOrder, RejectRequest,
                Request, PlaceOrder, RejectPlace, vars, orderVars, mainVars
  <2> QED
    BY <2>1, SameFollows, LedgerQuiet
<1>2. ASSUME NEW b \in Bets, SkipCurrentOrder(b)
      PROVE  LedgerInv'
  <2>1. /\ UNCHANGED <<pkg, seen, betId, remaining, queue, exch>>
        /\ current' = [c \in DOMAIN current \ {b} |-> current[c]]
    BY <1>2 DEF SkipCurrentOrder, orderVars
  <2>2. /\ DOMAIN current' \subseteq DOMAIN current
        /\ \A c \in DOMAIN current' : current'[c] = current[c]
    BY <2>1
  <2> QED
    BY <2>1, <2>2, SameFollows, LedgerQuiet
<1> QED
  BY <1>1, <1>2

LEMMA LedgerMatch ==
  ASSUME TypeInv, TypeInv', LedgerInv, NEW b \in Bets, ExchangeMatch(b)
  PROVE  LedgerInv'
<1>1. UNCHANGED <<pkg, seen, betId, remaining, queue, current>>
  BY DEF ExchangeMatch, orderVars, mainVars
<1>2. exch[b].left \in 0..Size /\ b \in 1..Len(exch)
  BY BetType DEF Bets
<1>3. PICK left \in 0..(exch[b].left - 1) : exch' = [exch EXCEPT ![b].left = left]
  BY DEF ExchangeMatch
<1>4. left \in 0..Size /\ left <= exch[b].left
  BY <1>2, <1>3, BoundAssumption
<1>5. Follows /\ Len(exch') = Len(exch)
  BY <1>2, <1>3, <1>4, LessFollows DEF Follows, TypeInv, ExchangeOK
<1> QED
  BY <1>1, <1>5, LedgerQuiet

LEMMA LedgerExecute ==
  ASSUME TypeInv, TypeInv', LedgerInv, NEW i \in 1..4, Execute(i)
  PROVE  LedgerInv'
<1>1. UNCHANGED <<seen, betId, remaining, queue, current, exch>>
  BY DEF Execute, orderVars
<1>2. PICK p \in Package : Others(p) /\ pkg'[p].pc = "queued" /\ pkg'[p].work = <<>>
  BY ExecuteFields
<1>3. Len(Items(pkg'[p])) = 0
  BY <1>2 DEF Items
<1>4. Keeps(p) /\ InTurn(pkg'[p]) /\ Placed(pkg[p])'
  BY <1>2, <1>3, LedgerEmpty
<1> QED
  BY <1>1, <1>2, <1>4, SameFollows, LedgerThread

\* The next snapshot
LEMMA LedgerNextSnapshot ==
  ASSUME TypeInv, TypeInv', LedgerInv, NextSnapshot
  PROVE  LedgerInv'
<1>1. /\ UNCHANGED <<pkg, seen, betId, remaining, exch>>
      /\ queue # <<>> /\ current' = Head(queue) /\ queue' = Tail(queue)
  BY DEF NextSnapshot, orderVars
<1>2. queue \in Seq(SnapshotAt(Len(exch)))
  BY DEF TypeInv, MainOK
<1>3. /\ current' = queue[1] /\ 1 \in 1..Len(queue) /\ Len(queue) \in Nat
      /\ Len(queue') = Len(queue) - 1
      /\ \A i \in 1..Len(queue') : i + 1 \in 1..Len(queue) /\ queue'[i] = queue[i + 1]
  BY <1>1, <1>2
<1>4. \A t : Falls(t) => Falls(t)'
  BY <1>1 DEF Falls, Unread, Items, Spent
<1>5. FallInv'
  <2>1. Falls(current)'
    <3>1. PICK t : t = queue[1]
      OBVIOUS
    <3>2. Falls(t)'
      BY <1>3, <1>4, <3>1 DEF LedgerInv, FallInv
    <3> QED
      BY <1>3, <3>1, <3>2 DEF Falls
  <2>2. ASSUME NEW i \in 1..Len(queue')
        PROVE  Falls(queue[i])' /\ Later(current', queue'[i])
    <3>1. PICK t : t = queue[i + 1]
      OBVIOUS
    <3>2. Falls(t)'
      BY <1>3, <1>4, <3>1 DEF LedgerInv, FallInv
    <3>3. Later(queue[1], t)
      <4>1. 1 < i + 1 /\ i + 1 \in 1..Len(queue)
        BY <1>3
      <4> QED
        BY <1>3, <3>1, <4>1 DEF LedgerInv, FallInv
    <3> QED
      BY <1>3, <3>1, <3>2, <3>3 DEF Falls
  <2>3. ASSUME NEW i \in 1..Len(queue'), NEW j \in 1..Len(queue'), i < j
        PROVE  Later(queue'[i], queue'[j])
    <3>1. i + 1 < j + 1 /\ i + 1 \in 1..Len(queue) /\ j + 1 \in 1..Len(queue)
      BY <1>3, <2>3
    <3> QED
      BY <1>3, <3>1 DEF LedgerInv, FallInv
  <2> QED
    BY <2>1, <2>2, <2>3 DEF FallInv, Later
<1> QED
  BY <1>1, <1>5, SameFollows, LedgerMain

\* A snapshot of what is left says no more than the orders, the reports and the records.
LEMMA LedgerSnap ==
  ASSUME TypeInv, TypeInv', ViewInv, LedgerInv, Snap
  PROVE  LedgerInv'
<1> DEFINE s == [b \in Bets |-> exch[b].left]
<1>1. UNCHANGED <<pkg, seen, betId, remaining, current, exch>> /\ queue' = Append(queue, s)
  BY DEF Snap, orderVars
<1>2. queue \in Seq(SnapshotAt(Len(exch)))
  BY DEF TypeInv, MainOK
<1>3. DOMAIN s = 1..Len(exch) /\ \A b \in 1..Len(exch) : s[b] = exch[b].left
  BY DEF Bets
<1> HIDE DEF s
<1>4. /\ Len(queue) \in Nat /\ Len(queue') = Len(queue) + 1
      /\ \A i \in 1..Len(queue) : queue'[i] = queue[i]
      /\ queue'[Len(queue) + 1] = s
  BY <1>1, <1>2
<1>5. Falls(s)
  <2>1. ASSUME NEW b \in 1..Len(exch)
        PROVE  exch[b].left <= remaining[exch[b].ref]
    <3>1. exch[b].ref \in Order /\ betId[exch[b].ref] \in 0..Len(exch)
      BY BetType DEF TypeInv, OrdersOK
    <3>2. CASE betId[exch[b].ref] = 0
      BY <3>1, <3>2 DEF ViewInv, OrderView
    <3>3. CASE betId[exch[b].ref] # 0
      <4>1. betId[exch[b].ref] = b
        BY <3>1, <3>3 DEF LedgerInv, OneBetInv, OwnBet
      <4> QED
        BY <3>1, <3>3, <4>1 DEF ViewInv, OrderView
    <3> QED
      BY <3>2, <3>3
  <2>2. ASSUME NEW p \in Package, NEW i, Unread(pkg[p], i),
               Items(pkg[p])[i].report.bet \in 1..Len(exch)
        PROVE  exch[Items(pkg[p])[i].report.bet].left <= Items(pkg[p])[i].report.size
    <3>1. Claim(pkg[p], i) = Items(pkg[p])[i].report.bet /\ i \in 1..Len(Items(pkg[p]))
      BY <2>2 DEF Claim, Unread
    <3>2. Claim(pkg[p], i) # 0
      BY <2>2, <3>1
    <3> QED
      BY <3>1, <3>2 DEF ViewInv, ClaimView
  <2> QED
    BY <1>3, <2>1, <2>2 DEF Falls
<1>6. \A t : Recorded(t) /\ DOMAIN t \subseteq 1..Len(exch) => Later(t, s)
  BY <1>3 DEF Recorded, Later
<1>7. Later(current, s) /\ \A i \in 1..Len(queue) : Later(queue[i], s)
  BY <1>6, RecordBets DEF ViewInv, RecordView
<1>8. \A t : Falls(t) => Falls(t)'
  BY <1>1 DEF Falls, Unread, Items, Spent
<1>9. FallInv'
  <2>1. Falls(current)'
    <3>1. PICK t : t = current
      OBVIOUS
    <3>2. Falls(t)'
      BY <1>8, <3>1 DEF LedgerInv, FallInv
    <3> QED
      BY <1>1, <3>1, <3>2
  <2>2. ASSUME NEW i \in 1..Len(queue')
        PROVE  Falls(queue[i])' /\ Later(current, queue'[i])
    <3>1. PICK t : t = queue'[i]
      OBVIOUS
    <3>2. Falls(t) /\ Later(current, t)
      <4>1. CASE i \in 1..Len(queue)
        BY <1>4, <3>1, <4>1 DEF LedgerInv, FallInv
      <4>2. CASE i = Len(queue) + 1
        BY <1>4, <1>5, <1>7, <3>1, <4>2
      <4> QED
        BY <1>4, <4>1, <4>2
    <3>3. Falls(t)'
      BY <1>8, <3>2
    <3> QED
      BY <3>1, <3>2, <3>3 DEF Falls
  <2>3. ASSUME NEW i \in 1..Len(queue'), NEW j \in 1..Len(queue'), i < j
        PROVE  Later(queue'[i], queue'[j])
    <3>1. i \in 1..Len(queue)
      BY <1>4, <2>3
    <3>2. CASE j \in 1..Len(queue)
      BY <1>4, <2>3, <3>1, <3>2 DEF LedgerInv, FallInv
    <3>3. CASE j = Len(queue) + 1
      BY <1>4, <1>7, <3>1, <3>3
    <3> QED
      BY <1>4, <3>2, <3>3
  <2> QED
    BY <1>1, <2>1, <2>2, <2>3 DEF FallInv, Later
<1> QED
  BY <1>1, <1>9, SameFollows, LedgerMain

\* Without replaces a record of a bet is about the order the bet was placed for.
LEMMA RecordOrder ==
  ASSUME TypeInv, LedgerInv, NEW b \in Bets
  PROVE  OrderOf(b) = exch[b].ref /\ exch[b].ref \in Order
<1>1. exch[b].ref \in Order /\ betId[exch[b].ref] \in 0..Len(exch) /\ b \in 1..Len(exch)
  BY BetType DEF TypeInv, OrdersOK, Bets
<1>2. betId[exch[b].ref] \in {0, b}
  BY <1>1 DEF LedgerInv, OneBetInv, OwnBet
<1> QED
  BY <1>1, <1>2 DEF OrderOf

\* What process_current_order does to the order and the records
LEMMA RecordFields ==
  ASSUME TypeInv, LedgerInv, NEW b \in Bets, ProcessCurrentOrder(b),
         NEW o, o = exch[b].ref
  PROVE  /\ o \in Order /\ b \in DOMAIN current
         /\ remaining' = [remaining EXCEPT ![o] = current[b]] /\ seen' = seen \cup {o}
         /\ betId' = betId \/ (betId[o] = 0 /\ betId' = [betId EXCEPT ![o] = b])
         /\ current' = [c \in DOMAIN current \ {b} |-> current[c]]
         /\ UNCHANGED <<trade, blotter, pkg, queue, exch>>
<1>1. OrderOf(b) = o /\ o \in Order
  BY RecordOrder
<1>2. betId' = betId \/ (betId[o] = 0 /\ betId' = [betId EXCEPT ![o] = b])
  BY <1>1 DEF ProcessCurrentOrder, TypeInv, OrdersOK
<1> QED
  BY <1>1, <1>2 DEF ProcessCurrentOrder

LEMMA LedgerProcess ==
  ASSUME TypeInv, TypeInv', LedgerInv, NEW b \in Bets, ProcessCurrentOrder(b)
  PROVE  LedgerInv'
<1>1. PICK o : o = exch[b].ref
  OBVIOUS
<1>2. /\ o \in Order /\ b \in DOMAIN current
      /\ remaining' = [remaining EXCEPT ![o] = current[b]] /\ seen' = seen \cup {o}
      /\ current' = [c \in DOMAIN current \ {b} |-> current[c]]
      /\ UNCHANGED <<pkg, queue, exch>>
  BY <1>1, RecordFields
<1>3. betId' = betId \/ (betId[o] = 0 /\ betId' = [betId EXCEPT ![o] = b])
  BY <1>1, RecordFields
<1>4. /\ b \in 1..Len(exch) /\ Len(exch) \in Nat
      /\ betId \in [Order -> 0..Len(exch)] /\ remaining \in [Order -> 0..Size]
  BY DEF Bets, TypeInv, OrdersOK, ExchangeOK
<1>5. /\ \A x \in Order \ {o} : betId'[x] = betId[x] /\ remaining'[x] = remaining[x]
      /\ betId'[o] = betId[o] \/ (betId[o] = 0 /\ betId'[o] = b)
      /\ remaining'[o] = current[b]
  BY <1>2, <1>3, <1>4
<1>6. Follows /\ Len(exch') = Len(exch)
  BY <1>2, SameFollows
<1>7. \A q \in Package : \A i : Unread(pkg'[q], i) =>
        \/ Items(pkg'[q])[i].order \in seen'
        \/ betId'[Items(pkg'[q])[i].order] = 0
  <2>1. ASSUME NEW q \in Package, NEW i, Unread(pkg[q], i), NEW x,
               x = Items(pkg[q])[i].order, x \notin seen'
        PROVE  betId'[x] = 0
    <3>1. betId[x] = 0 /\ x # o
      BY <1>2, <2>1 DEF LedgerInv, UntoldInv
    <3>2. x \in Order
      BY <2>1, UnreadOrder DEF LedgerInv, TurnInv
    <3> QED
      BY <1>5, <3>1, <3>2
  <2>2. \A q \in Package : \A i : Unread(pkg[q], i) =>
          \A x : x = Items(pkg[q])[i].order => x \in seen' \/ betId'[x] = 0
    BY <2>1
  <2> QED
    BY <1>2, <2>2
<1>8. \A x \in Order :
        \/ betId'[x] = betId[x]
        \/ betId'[x] \in 1..Len(exch) /\ exch[betId'[x]].ref = x
  BY <1>1, <1>3, <1>4, <1>5
<1>9. \A x \in Order : remaining'[x] = remaining[x] \/ x \in seen' \/ betId'[x] # 0
  BY <1>2, <1>5
<1>10. \A x \in Order : betId[x] # 0 => betId'[x] # 0
  BY <1>3, <1>4, <1>5
<1>11. ASSUME NEW q \in Package
       PROVE  InTurn(pkg'[q]) /\ Placed(pkg[q])'
  <2>1. InTurn(pkg[q]) /\ Placed(pkg[q]) /\ pkg'[q] = pkg[q]
    BY <1>2 DEF LedgerInv, TurnInv
  <2>2. \A i \in 1..Len(pkg[q].work) :
          pkg[q].work[i].order # NoOrder => pkg[q].work[i].order \in Order
    <3>1. pkg[q].work \in Seq(WorkAt(Len(exch)))
      BY PackageFields
    <3>2. \A i \in 1..Len(pkg[q].work) : pkg[q].work[i] \in WorkAt(Len(exch))
      BY <3>1
    <3> QED
      BY <3>2 DEF WorkAt
  <2>3. pkg[q].pc = "apply" => pkg[q].work[1].order \in Order
    <3>1. ASSUME pkg[q].pc = "apply"
          PROVE  pkg[q].work[1].order \in Order
      BY <3>1, ApplyingItem, ItemHead DEF Applying
    <3> QED
      BY <3>1
  <2> QED
    BY <1>10, <2>1, <2>2, <2>3 DEF Placed
<1>12. FallInv'
  <2>1. \A c \in 1..Len(exch) :
          \/ remaining'[exch[c].ref] = remaining[exch[c].ref]
          \/ /\ c \in DOMAIN current' => current[c] <= remaining'[exch[c].ref]
             /\ \A i \in 1..Len(queue) :
                  c \in DOMAIN queue[i] => queue[i][c] <= remaining'[exch[c].ref]
    <3>1. ASSUME NEW c \in 1..Len(exch), exch[c].ref = o
          PROVE  /\ c \notin DOMAIN current'
                 /\ \A i \in 1..Len(queue) :
                      c \in DOMAIN queue[i] => queue[i][c] <= remaining'[o]
      <4>1. c = b
        BY <1>1, <1>4, <3>1 DEF LedgerInv, OneBetInv
      <4>2. \A i \in 1..Len(queue) : b \in DOMAIN queue[i] => queue[i][b] <= current[b]
        BY <1>2 DEF LedgerInv, FallInv, Later
      <4> QED
        BY <1>2, <1>5, <4>1, <4>2
    <3>2. \A c \in 1..Len(exch) : exch[c].ref \in Order
      BY BetType
    <3> QED
      BY <1>5, <3>1, <3>2
  <2>2. /\ DOMAIN current' \subseteq DOMAIN current
        /\ \A c \in DOMAIN current' : current'[c] = current[c]
    BY <1>2
  <2>3. \A q \in Package : \A i : Unread(pkg'[q], i) =>
          \E j : /\ Unread(pkg[q], j)
                 /\ Items(pkg'[q])[i].report = Items(pkg[q])[j].report
    BY <1>2
  <2> QED
    BY <1>2, <1>6, <2>1, <2>2, <2>3, FallKept DEF LedgerInv
<1>13. seen \subseteq seen' /\ \A c \in 1..Len(exch') : c \in 1..Len(exch)
  BY <1>2
<1> QED
  BY <1>6, <1>7, <1>8, <1>9, <1>10, <1>11, <1>12, <1>13, LedgerStep

LEMMA LedgerInit ==
  ASSUME Init
  PROVE  LedgerInv
<1>1. \A p \in Package : \A i : ~Unread(pkg[p], i)
  BY DEF Init, Unread, Items, Idle
<1>2. OneBetInv
  BY DEF Init, OneBetInv, OwnBet
<1>3. UntoldInv
  BY <1>1 DEF Init, UntoldInv
<1>4. TurnInv
  <2>1. ASSUME NEW p \in Package
        PROVE  InTurn(pkg[p]) /\ Placed(pkg[p])
    <3>1. pkg[p].pc = "free" /\ pkg[p].type = "PLACE" /\ pkg[p].work = <<>>
      BY DEF Init, Idle
    <3>2. Len(Items(pkg[p])) = 0
      BY <3>1 DEF Items
    <3>3. InTurn(pkg[p])
      BY <3>2 DEF InTurn
    <3> QED
      BY <3>1, <3>3 DEF Placed
  <2> QED
    BY <2>1 DEF TurnInv
<1>5. FallInv
  BY DEF Init, FallInv, Falls, Later, NoRecords
<1> QED
  BY <1>2, <1>3, <1>4, <1>5 DEF LedgerInv

LEMMA LedgerNext ==
  ASSUME TypeInv, TypeInv', TrackedInv, Aligned, BetInv, ViewInv, WaitInv, CountInv,
         LedgerInv, MaxRestarts = 0, [Next]_vars
  PROVE  LedgerInv'
<1>1. ~Restart
  BY DEF Restart, TypeInv, CountsOK
<1>2. \A b \in Bets : ~CreateOrderFromCurrent(b)
  BY DEF CreateOrderFromCurrent, CountInv, Bets
<1>3. CASE Strategy \/ UNCHANGED vars
  BY <1>3, LedgerStrategy
<1>4. CASE Main
  BY <1>2, <1>4, LedgerStrategy, LedgerExecute, LedgerNextSnapshot, LedgerProcess DEF Main
<1>5. CASE Snap
  BY <1>5, LedgerSnap
<1>6. CASE \E p \in Package : Thread(p) \/ RequestError(p) \/ RequestBroken(p)
  BY <1>6, LedgerThreads
<1>7. CASE \E b \in Bets : ExchangeMatch(b)
  BY <1>7, LedgerMatch
<1> QED
  BY <1>1, <1>3, <1>4, <1>5, <1>6, <1>7 DEF Next

-----------------------------------------------------------------------------
(* The refinement mapping *)

\* What is left of the bet of an order at exchange e
BetsIn(e, o) == {b \in 1..Len(e) : e[b].ref = o}
LeftIn(e, o) == IF BetsIn(e, o) = {} THEN 0 ELSE e[Fresh(BetsIn(e, o))].left

LEMMA LeftOne ==
  ASSUME NEW e, NEW o, NEW b \in 1..Len(e), e[b].ref = o,
         \A c \in 1..Len(e) : e[c].ref = o => c = b
  PROVE  BetsIn(e, o) # {} /\ LeftIn(e, o) = e[b].left
<1>1. BetsIn(e, o) = {b}
  BY DEF BetsIn
<1>2. Fresh({b}) = b
  BY DEF Fresh
<1> QED
  BY <1>1, <1>2 DEF LeftIn

LEMMA LeftMapped ==
  /\ \A o : BetsOf(o) = BetsIn(exch, o) /\ LeftOf(o) = LeftIn(exch, o)
  /\ \A o : BetsOf(o)' = BetsIn(exch', o) /\ LeftOf(o)' = LeftIn(exch', o)
BY DEF BetsOf, LeftOf, BetsIn, LeftIn, Bets

\* What an order has left in the ledger
LEMMA LeftBounds ==
  ASSUME TypeInv, OneBetInv, NEW o \in Order
  PROVE  /\ LeftOf(o) \in 0..Size
         /\ \A b \in 1..Len(exch) : exch[b].ref = o => LeftOf(o) = exch[b].left /\ BetsOf(o) # {}
         /\ (\A b \in 1..Len(exch) : exch[b].ref # o) => LeftOf(o) = 0 /\ BetsOf(o) = {}
<1>1. ASSUME NEW b \in 1..Len(exch), exch[b].ref = o
      PROVE  LeftOf(o) = exch[b].left /\ BetsOf(o) # {}
  <2>1. BetsIn(exch, o) # {} /\ LeftIn(exch, o) = exch[b].left
    BY <1>1, LeftOne DEF OneBetInv
  <2> QED
    BY <2>1, LeftMapped
<1>2. ASSUME \A b \in 1..Len(exch) : exch[b].ref # o
      PROVE  LeftOf(o) = 0 /\ BetsOf(o) = {}
  BY <1>2 DEF LeftOf, BetsOf, Bets
<1>3. \A b \in 1..Len(exch) : exch[b].left \in 0..Size
  BY BetType
<1> QED
  BY <1>1, <1>2, <1>3, BoundAssumption

\* The steps of the ledger, order by order
LEMMA Moves ==
  ASSUME NEW x \in Order, NEW from, NEW to, PhaseOf(x) = from, PhaseOf(x)' = to,
         \A o \in Order \ {x} : PhaseOf(o)' = PhaseOf(o)
  PROVE  Ledger!Move(x, from, to)
BY DEF Ledger!Move

LEMMA SamePhases ==
  ASSUME \A o \in Order : PhaseOf(o)' = PhaseOf(o)
  PROVE  UNCHANGED [o \in Order |-> PhaseOf(o)]
OBVIOUS

LEMMA SameBets ==
  ASSUME exch' = exch
  PROVE  UNCHANGED <<{o \in Order : BetsOf(o) # {}}, [o \in Order |-> LeftOf(o)]>>
BY LeftMapped

LEMMA Learns ==
  ASSUME TypeInv, NEW x \in Order, NEW n \in LeftOf(x)..remaining[x],
         remaining' = [remaining EXCEPT ![x] = n]
  PROVE  Ledger!LearnOf(x)
BY DEF Ledger!LearnOf

LEMMA Stutters ==
  ASSUME exch' = exch, remaining' = remaining, \A o \in Order : PhaseOf(o)' = PhaseOf(o)
  PROVE  UNCHANGED Ledger!vars
BY SamePhases, SameBets DEF Ledger!vars

PhaseIn(s) ==
  CASE s = "None" -> "unborn"
    [] s = "New" -> "new"
    [] s = "EXECUTION_COMPLETE" -> "closed"
    [] s = "VIOLATION" -> "void"
    [] OTHER -> "open"
Open == OrderStatus \ {"None", "New", "EXECUTION_COMPLETE", "VIOLATION"}

LEMMA PhaseMapped ==
  /\ \A o : PhaseOf(o) = PhaseIn(status[o]) /\ PhaseOf(o)' = PhaseIn(status'[o])
  /\ PhaseIn("None") = "unborn" /\ PhaseIn("New") = "new" /\ PhaseIn("VIOLATION") = "void"
  /\ PhaseIn("EXECUTION_COMPLETE") = "closed" /\ \A s \in Open : PhaseIn(s) = "open"
BY DEF PhaseOf, PhaseIn, Open

LEMMA StatusPhases ==
  ASSUME TypeInv, NEW x \in Order, NEW s, status' = [status EXCEPT ![x] = s]
  PROVE  /\ PhaseOf(x)' = PhaseIn(s) /\ \A o \in Order \ {x} : PhaseOf(o)' = PhaseOf(o)
         /\ \A o \in Order : PhaseOf(o) = PhaseIn(s) => PhaseOf(o)' = PhaseOf(o)
<1>1. status'[x] = s /\ \A o \in Order \ {x} : status'[o] = status[o]
  BY DEF TypeInv, OrdersOK
<1> QED
  BY <1>1, PhaseMapped

\* An order changes its status, and nothing else that the ledger has.
LEMMA StatusMoves ==
  ASSUME TypeInv, NEW x \in Order, NEW s, status' = [status EXCEPT ![x] = s],
         UNCHANGED <<exch, remaining>>
  PROVE  /\ status[x] = "None" /\ s = "New" => Ledger!Next
         /\ status[x] = "New" /\ s = "PENDING" => Ledger!Next
         /\ status[x] = "New" /\ s = "VIOLATION" => Ledger!Next
         /\ status[x] \in Open /\ s \in Open => UNCHANGED Ledger!vars
         /\ status[x] = s => UNCHANGED Ledger!vars
<1>1. /\ PhaseOf(x) = PhaseIn(status[x]) /\ PhaseOf(x)' = PhaseIn(s)
      /\ \A o \in Order \ {x} : PhaseOf(o)' = PhaseOf(o)
  BY PhaseMapped, StatusPhases
<1>2. Ledger!Move(x, PhaseIn(status[x]), PhaseIn(s))
  BY <1>1, Moves
<1>3. UNCHANGED <<{o \in Order : BetsOf(o) # {}}, [o \in Order |-> LeftOf(o)], remaining>>
  BY SameBets
<1>4. status[x] = "None" /\ s = "New" => Ledger!Create(x)
  BY <1>2, <1>3, PhaseMapped DEF Ledger!Create
<1>5. status[x] = "New" /\ s = "PENDING" => Ledger!Open(x)
  <2>1. "PENDING" \in Open
    BY DEF Open, OrderStatus
  <2> QED
    BY <1>2, <1>3, <2>1, PhaseMapped DEF Ledger!Open
<1>6. status[x] = "New" /\ s = "VIOLATION" => Ledger!Reject(x)
  BY <1>2, <1>3, PhaseMapped DEF Ledger!Reject
<1>7. PhaseIn(status[x]) = PhaseIn(s) => UNCHANGED Ledger!vars
  BY <1>1, Stutters
<1>8. (Ledger!Create(x) \/ Ledger!Open(x) \/ Ledger!Reject(x)) => Ledger!Next
  BY DEF Ledger!Next
<1> QED
  BY <1>4, <1>5, <1>6, <1>7, <1>8, PhaseMapped

LedgerSafe ==
  /\ TypeInv /\ TrackedInv /\ BetInv /\ ViewInv /\ DoneInv /\ WaitInv
  /\ CountInv /\ LedgerInv

\* An order of the blotter is open or closed.
LEMMA OpenOrClosed ==
  ASSUME TypeInv, BlotterInv, NoControls, NEW o \in Order, o \in blotter
  PROVE  status[o] \in Open \cup {"EXECUTION_COMPLETE"}
BY DEF TypeInv, OrdersOK, BlotterInv, NoControls, Open

\* Nothing is left of the bet of a settled order.
LEMMA SettledLeft ==
  ASSUME TypeInv, OneBetInv, NEW o \in Order, Settled(o)
  PROVE  LeftOf(o) = 0
<1>1. CASE \A b \in 1..Len(exch) : exch[b].ref # o
  BY <1>1, LeftBounds
<1>2. ASSUME NEW b \in 1..Len(exch), exch[b].ref = o
      PROVE  LeftOf(o) = 0
  <2>1. LeftOf(o) = exch[b].left
    BY <1>2, LeftBounds
  <2>2. CASE betId[o] = 0
    BY <1>2, <2>1, <2>2 DEF Settled, Done, Empty
  <2>3. CASE betId[o] # 0
    <3>1. betId[o] = b
      BY <1>2, <2>3 DEF OneBetInv, OwnBet, Settled, Done, Empty
    <3> QED
      BY <2>1, <2>3, <3>1 DEF Settled, Done, Empty
  <2> QED
    BY <2>2, <2>3
<1> QED
  BY <1>1, <1>2

\* An order closes when nothing is left of its bet.
LEMMA Closes ==
  ASSUME TypeInv, OneBetInv, NEW o \in Order, status[o] \in Open,
         status' = [status EXCEPT ![o] = "EXECUTION_COMPLETE"], exch' = exch,
         LeftOf(o) = 0, NEW n \in 0..remaining[o], remaining' = [remaining EXCEPT ![o] = n]
  PROVE  Ledger!Next
<1>1. /\ PhaseOf(o) = "open" /\ PhaseOf(o)' = "closed"
      /\ \A x \in Order \ {o} : PhaseOf(x)' = PhaseOf(x)
  BY PhaseMapped, StatusPhases
<1>2. Ledger!Move(o, "open", "closed")
  BY <1>1, Moves
<1>3. Ledger!LearnOf(o)
  BY Learns
<1>4. Ledger!Close(o)
  BY <1>2, <1>3, SameBets DEF Ledger!Close
<1> QED
  BY <1>4 DEF Ledger!Next

\* A bet loses some of what is left of it, or nothing.
LEMMA Falling ==
  ASSUME TypeInv, OneBetInv, NEW b \in 1..Len(exch), NEW n \in 0..Size, n <= exch[b].left,
         Len(exch') = Len(exch), exch'[b].left = n,
         \A c \in 1..Len(exch) : exch'[c].ref = exch[c].ref,
         \A c \in 1..Len(exch) \ {b} : exch'[c] = exch[c],
         UNCHANGED <<status, remaining>>
  PROVE  Ledger!Next \/ UNCHANGED Ledger!vars
<1>1. \A o \in Order : PhaseOf(o)' = PhaseOf(o)
  BY PhaseMapped
<1>2. PICK o : o = exch[b].ref
  OBVIOUS
<1>3. o \in Order /\ exch[b].left \in 0..Size
  BY <1>2, BetType
<1>4. \A x \in Order : BetsIn(exch', x) = BetsIn(exch, x)
  BY DEF BetsIn
<1>5. \A x \in Order \ {o} : LeftIn(exch', x) = LeftIn(exch, x)
  <2>1. ASSUME NEW x \in Order \ {o}, NEW c \in 1..Len(exch), exch[c].ref = x
        PROVE  LeftIn(exch', x) = LeftIn(exch, x)
    <3>1. c # b /\ \A d \in 1..Len(exch) : exch[d].ref = x => d = c
      BY <1>2, <2>1 DEF OneBetInv
    <3>2. LeftIn(exch, x) = exch[c].left
      BY <2>1, <3>1, LeftOne
    <3>3. /\ c \in 1..Len(exch') /\ exch'[c].ref = x
          /\ \A d \in 1..Len(exch') : exch'[d].ref = x => d = c
      BY <2>1, <3>1
    <3>4. LeftIn(exch', x) = exch'[c].left
      BY <3>3, LeftOne
    <3> QED
      BY <2>1, <3>1, <3>2, <3>4
  <2>2. ASSUME NEW x \in Order \ {o}, \A c \in 1..Len(exch) : exch[c].ref # x
        PROVE  LeftIn(exch', x) = LeftIn(exch, x)
    <3>1. BetsIn(exch, x) = {} /\ BetsIn(exch', x) = {}
      BY <1>4, <2>2 DEF BetsIn
    <3> QED
      BY <3>1 DEF LeftIn
  <2> QED
    BY <2>1, <2>2
<1>6. LeftIn(exch, o) = exch[b].left /\ LeftIn(exch', o) = n /\ BetsIn(exch, o) # {}
  <2>1. \A d \in 1..Len(exch) : exch[d].ref = o => d = b
    BY <1>2 DEF OneBetInv
  <2>2. /\ b \in 1..Len(exch') /\ exch'[b].ref = o
        /\ \A d \in 1..Len(exch') : exch'[d].ref = o => d = b
    BY <1>2, <2>1
  <2>3. LeftIn(exch', o) = exch'[b].left
    BY <2>2, LeftOne
  <2> QED
    BY <1>2, <2>1, <2>3, LeftOne
<1>7. {x \in Order : BetsOf(x) # {}}' = {x \in Order : BetsOf(x) # {}}
  BY <1>4, LeftMapped
<1>8. CASE n = exch[b].left
  <2>1. [x \in Order |-> LeftOf(x)]' = [x \in Order |-> LeftOf(x)]
    BY <1>5, <1>6, <1>8, LeftMapped
  <2> QED
    BY <1>1, <1>7, <2>1, SamePhases DEF Ledger!vars
<1>9. CASE n < exch[b].left
  <2>1. [x \in Order |-> LeftOf(x)]' = [[x \in Order |-> LeftOf(x)] EXCEPT ![o] = n]
    BY <1>3, <1>5, <1>6, LeftMapped
  <2>2. o \in {x \in Order : BetsOf(x) # {}} /\ n < [x \in Order |-> LeftOf(x)][o]
    BY <1>3, <1>6, <1>9, LeftMapped
  <2>3. Ledger!Fall(o)
    BY <1>1, <1>7, <2>1, <2>2, SamePhases DEF Ledger!Fall
  <2> QED
    BY <1>3, <2>3 DEF Ledger!Next
<1> QED
  BY <1>3, <1>8, <1>9

-----------------------------------------------------------------------------
(* The steps are steps of the ledger *)

LEMMA QuietMaps ==
  ASSUME UNCHANGED <<status, exch, remaining>>
  PROVE  UNCHANGED Ledger!vars
BY Stutters, PhaseMapped

LEMMA StrategyMaps ==
  ASSUME LedgerSafe, NoControls, NoReplaces, NEW o \in Order,
         \/ \E t \in Trade : CreateOrder(o, t)
         \/ CancelOrder(o) \/ UpdateOrder(o) \/ ReplaceOrder(o) \/ RejectRequest(o)
         \/ PlaceOrder(o) \/ RejectPlace(o)
  PROVE  Ledger!Next \/ UNCHANGED Ledger!vars
<1>1. TypeInv
  BY DEF LedgerSafe
<1>2. UNCHANGED <<exch, remaining>>
  BY DEF CreateOrder, CancelOrder, UpdateOrder, ReplaceOrder, RejectRequest, Request,
         PlaceOrder, RejectPlace
<1>3. ~ReplaceOrder(o) /\ ~RejectRequest(o)
  BY DEF ReplaceOrder, RejectRequest, Request, NoReplaces, NoControls
<1>4. CASE \E t \in Trade : CreateOrder(o, t)
  <2>1. status[o] = "None" /\ status' = [status EXCEPT ![o] = "New"]
    BY <1>4, FreshOrder DEF CreateOrder
  <2> QED
    BY <1>1, <1>2, <2>1, StatusMoves
<1>5. ASSUME NEW type \in {"CANCEL", "UPDATE"}, Request(o, type), Accept(o, type)
      PROVE  UNCHANGED Ledger!vars
  <2>1. /\ status[o] = "EXECUTABLE" /\ status' = [status EXCEPT ![o] = Requested[type]]
        /\ Requested[type] \in {"CANCELLING", "UPDATING"}
    BY <1>5 DEF Request, Accept, UpdateStatus, Requested
  <2>2. status[o] \in Open /\ Requested[type] \in Open
    BY <2>1 DEF Open, OrderStatus
  <2> QED
    BY <1>1, <1>2, <2>1, <2>2, StatusMoves
<1>6. CASE CancelOrder(o) \/ UpdateOrder(o)
  BY <1>5, <1>6 DEF CancelOrder, UpdateOrder
<1>7. CASE PlaceOrder(o) \/ RejectPlace(o)
  <2>1. /\ status[o] = "New"
        /\ \E s \in {"PENDING", "VIOLATION"} : status' = [status EXCEPT ![o] = s]
    BY <1>7 DEF PlaceOrder, RejectPlace, UpdateStatus
  <2> QED
    BY <1>1, <1>2, <2>1, StatusMoves
<1> QED
  BY <1>3, <1>4, <1>6, <1>7

LEMMA MainMaps ==
  ASSUME \/ \E i \in 1..4 : Execute(i)
         \/ NextSnapshot \/ Snap \/ UNCHANGED vars
         \/ \E b \in Bets : SkipCurrentOrder(b)
  PROVE  UNCHANGED Ledger!vars
<1>1. UNCHANGED <<status, exch, remaining>>
  BY DEF Execute, NextSnapshot, Snap, SkipCurrentOrder, vars, orderVars
<1> QED
  BY <1>1, QuietMaps

LEMMA MatchMaps ==
  ASSUME LedgerSafe, NEW b \in Bets, ExchangeMatch(b)
  PROVE  Ledger!Next \/ UNCHANGED Ledger!vars
<1>1. UNCHANGED <<status, remaining>>
  BY DEF ExchangeMatch, orderVars
<1>2. PICK left \in 0..(exch[b].left - 1) : exch' = [exch EXCEPT ![b].left = left]
  BY DEF ExchangeMatch
<1>3. /\ TypeInv /\ OneBetInv /\ b \in 1..Len(exch) /\ exch[b].left \in 0..Size
      /\ exch \in Seq([ref : Order, left : 0..Size])
  BY BetType DEF LedgerSafe, LedgerInv, Bets, TypeInv, ExchangeOK
<1>4. left \in 0..Size /\ left <= exch[b].left
  BY <1>2, <1>3, BoundAssumption
<1>5. /\ Len(exch') = Len(exch) /\ exch'[b].left = left
      /\ \A c \in 1..Len(exch) : exch'[c].ref = exch[c].ref
      /\ \A c \in 1..Len(exch) \ {b} : exch'[c] = exch[c]
  BY <1>2, <1>3
<1> QED
  BY <1>1, <1>3, <1>4, <1>5, Falling

LEMMA CancelMaps ==
  ASSUME LedgerSafe, NEW p \in Package, ExchangeCancel(p)
  PROVE  Ledger!Next \/ UNCHANGED Ledger!vars
<1> DEFINE b == Head(pkg[p].instr).bet
           r == Head(pkg[p].instr).size
<1>1. UNCHANGED <<status, remaining>> /\ pkg[p].instr # <<>> /\ pkg[p].type = "CANCEL"
  BY DEF ExchangeCancel, Processing, orderVars
<1>2. /\ TypeInv /\ OneBetInv /\ exch \in Seq([ref : Order, left : 0..Size])
  BY DEF LedgerSafe, LedgerInv, TypeInv, ExchangeOK
<1>3. b \in 1..Len(exch) /\ r \in 0..Size
  BY <1>1, <1>2, HeadInstruction
<1>4. CASE exch' = exch
  BY <1>1, <1>4, QuietMaps
<1> DEFINE left == exch[b].left - Cancelled(b, r)
<1>7. left \in 0..Size /\ left <= exch[b].left
  <2>1. exch[b].left \in 0..Size /\ r \in Nat
    <3> HIDE DEF b, r
    <3> QED
      BY <1>2, <1>3, BetType, BoundAssumption
  <2> QED
    BY <2>1, CancelledType
<1>5. CASE exch' = [exch EXCEPT ![b].left = @ - Cancelled(b, r)]
  <2>3. exch' = [exch EXCEPT ![b].left = left]
    BY <1>5
  <2> HIDE DEF b, left
  <2>4. /\ Len(exch') = Len(exch) /\ exch'[b].left = left
        /\ \A c \in 1..Len(exch) : exch'[c].ref = exch[c].ref
        /\ \A c \in 1..Len(exch) \ {b} : exch'[c] = exch[c]
    BY <1>2, <1>3, <2>3
  <2> QED
    BY <1>1, <1>2, <1>3, <1>7, <2>4, Falling
<1>6. exch' = exch \/ exch' = [exch EXCEPT ![b].left = @ - Cancelled(b, r)]
  BY DEF ExchangeCancel
<1> QED
  BY <1>4, <1>5, <1>6

\* The exchange makes the bet of an order that is open and has none.
LEMMA PlaceMaps ==
  ASSUME LedgerSafe, NoControls, NEW p \in Package, ExchangePlace(p)
  PROVE  Ledger!Next \/ UNCHANGED Ledger!vars
<1> DEFINE n == Len(exch) + 1
<1>1. UNCHANGED <<status, remaining>> /\ pkg[p].instr # <<>>
  BY DEF ExchangePlace, Processing, orderVars
<1>2. /\ TypeInv /\ OneBetInv /\ exch \in Seq([ref : Order, left : 0..Size])
  BY DEF LedgerSafe, LedgerInv, TypeInv, ExchangeOK
<1>3. PICK o : o = Head(pkg[p].instr).order
  OBVIOUS
<1>4. o \in Order /\ Waits(o) /\ NoBetYet(o)
  BY <1>1, <1>2, <1>3, HeadInstruction, PlacedOnce DEF LedgerSafe
<1>5. CASE exch' = exch
  BY <1>1, <1>5, QuietMaps
<1>6. ASSUME NEW left \in 0..Size, exch' = Append(exch, Bet(o, left))
      PROVE  Ledger!Next
  <2>1. /\ Len(exch) \in Nat /\ Len(exch') = n
        /\ \A b \in 1..Len(exch) : exch'[b] = exch[b]
        /\ exch'[n].ref = o /\ exch'[n].left = left
    BY <1>2, <1>6 DEF Bet
  <2>2. PhaseOf(o) = "open"
    <3>1. o \in blotter /\ status[o] # "EXECUTION_COMPLETE"
      BY <1>2, <1>4, WaitsTracked DEF LedgerSafe, DoneInv, StatusDone, Settled
    <3> QED
      BY <1>2, <1>4, <3>1, OpenOrClosed, PhaseMapped DEF LedgerSafe, TrackedInv
  <2>3. LeftIn(exch', o) = left /\ BetsIn(exch', o) # {} /\ BetsIn(exch, o) = {}
    <3>1. /\ n \in 1..Len(exch') /\ exch'[n].ref = o
          /\ \A c \in 1..Len(exch') : exch'[c].ref = o => c = n
      BY <1>4, <2>1 DEF NoBetYet
    <3>2. LeftIn(exch', o) = exch'[n].left /\ BetsIn(exch', o) # {}
      <4> HIDE DEF n
      <4> QED
        BY <3>1, LeftOne
    <3> QED
      BY <1>4, <2>1, <3>2 DEF NoBetYet, BetsIn
  <2>4. \A x \in Order \ {o} : BetsIn(exch', x) = BetsIn(exch, x)
    BY <2>1 DEF BetsIn
  <2>5. ASSUME NEW x \in Order \ {o}
        PROVE  LeftIn(exch', x) = LeftIn(exch, x)
    <3>1. CASE BetsIn(exch, x) = {}
      BY <2>4, <3>1 DEF LeftIn
    <3>2. ASSUME NEW c \in BetsIn(exch, x)
          PROVE  LeftIn(exch', x) = LeftIn(exch, x)
      <4>1. c \in 1..Len(exch) /\ exch[c].ref = x
        BY <3>2 DEF BetsIn
      <4>2. /\ c \in 1..Len(exch') /\ exch'[c].ref = x
            /\ \A d \in 1..Len(exch') : exch'[d].ref = x => d = c
        <5>1. \A d \in 1..n : d \in 1..Len(exch) \/ d = n
          BY <2>1
        <5>2. \A d \in 1..Len(exch) : exch[d].ref = x => d = c
          BY <1>2, <4>1 DEF OneBetInv
        <5> QED
          BY <2>1, <4>1, <5>1, <5>2
      <4>3. LeftIn(exch', x) = exch'[c].left
        BY <4>2, LeftOne
      <4>4. LeftIn(exch, x) = exch[c].left
        BY <1>2, <4>1, LeftOne DEF OneBetInv
      <4> QED
        BY <2>1, <4>1, <4>3, <4>4
    <3> QED
      BY <3>1, <3>2
  <2>6. [x \in Order |-> LeftOf(x)]' = [[x \in Order |-> LeftOf(x)] EXCEPT ![o] = left]
    BY <1>4, <2>3, <2>5, LeftMapped
  <2>7. /\ {x \in Order : BetsOf(x) # {}}' = {x \in Order : BetsOf(x) # {}} \cup {o}
        /\ o \notin {x \in Order : BetsOf(x) # {}}
    BY <1>4, <2>3, <2>4, LeftMapped
  <2>8. [x \in Order |-> PhaseOf(x)][o] = "open" /\ UNCHANGED [x \in Order |-> PhaseOf(x)]
    BY <1>1, <1>4, <2>2, PhaseMapped, SamePhases
  <2>9. Ledger!Make(o)
    BY <1>1, <2>6, <2>7, <2>8 DEF Ledger!Make
  <2> QED
    BY <1>4, <2>9 DEF Ledger!Next
<1>7. exch' = exch \/ \E left \in 0..Size : exch' = Append(exch, Bet(o, left))
  BY <1>3 DEF ExchangePlace
<1> QED
  BY <1>5, <1>6, <1>7

\* A report of a request comes in: it decides the status of the order.
LEMMA ApplyMaps ==
  ASSUME LedgerSafe, NoControls, NEW p \in Package, ApplyReport(p)
  PROVE  Ledger!Next \/ UNCHANGED Ledger!vars
<1>1. PICK o, s : o = Item(p).order /\ s = Outcome(pkg[p].type, o, Item(p).report)
  OBVIOUS
<1>2. /\ pkg[p].pc = "apply" /\ ~Undecided(p) /\ status' = [status EXCEPT ![o] = s]
      /\ UNCHANGED <<exch, remaining>>
  BY <1>1 DEF ApplyReport, UpdateStatus
<1>3. TypeInv /\ TrackedInv /\ WaitInv /\ DoneInv /\ BlotterInv /\ OneBetInv /\ Placed(pkg[p])
  BY DEF LedgerSafe, TrackedInv, LedgerInv, TurnInv
<1>4. pkg[p].work # <<>> /\ o \in Order /\ o # NoOrder /\ o \in blotter
  BY <1>1, <1>2, <1>3, ApplyingItem, ItemTracked DEF Applying
<1>5. status[o] \in Open \cup {"EXECUTION_COMPLETE"}
  BY <1>3, <1>4, OpenOrClosed
<1>6. s \in {"EXECUTABLE", "EXECUTION_COMPLETE"}
  BY <1>1, <1>2, <1>3, OutcomeDecides
<1>7. CASE s = status[o]
  BY <1>2, <1>3, <1>4, <1>7, StatusMoves
<1>8. CASE s = "EXECUTABLE" /\ status[o] \in Open
  <2>1. s \in Open
    BY <1>8 DEF Open, OrderStatus
  <2> QED
    BY <1>2, <1>3, <1>4, <1>8, <2>1, StatusMoves
<1>9. ASSUME s = "EXECUTION_COMPLETE", status[o] \in Open
      PROVE  Ledger!Next
  <2>1. LeftOf(o) = 0
    BY <1>1, <1>2, <1>3, <1>4, <1>9, OutcomeSettled, SettledLeft
  <2>2. remaining \in [Order -> 0..Size] /\ remaining[o] \in 0..remaining[o]
    BY <1>3, <1>4, BoundAssumption DEF TypeInv, OrdersOK
  <2>3. remaining' = [remaining EXCEPT ![o] = remaining[o]]
    BY <1>2, <1>4, <2>2
  <2> QED
    BY <1>2, <1>3, <1>4, <1>9, <2>1, <2>2, <2>3, Closes
<1>10. ASSUME s = "EXECUTABLE", status[o] = "EXECUTION_COMPLETE"
       PROVE  Ledger!Next
  <2>1. betId[o] # 0
    <3>1. Item(p) = pkg[p].work[1] /\ 1 \in 1..Len(pkg[p].work)
      BY <1>3, <1>4, ItemHead
    <3>2. CASE pkg[p].type # "PLACE"
      BY <1>1, <1>3, <1>4, <3>1, <3>2 DEF Placed
    <3>3. CASE pkg[p].type = "PLACE"
      <4>1. s = PlaceOutcome(o, Item(p).report)
        BY <1>1, <3>3 DEF Outcome
      <4>2. Item(p).report.bet # 0
        BY <1>10, <4>1 DEF PlaceOutcome
      <4> QED
        BY <1>1, <1>2, <1>3, <3>1, <3>3, <4>2 DEF Placed
    <3> QED
      BY <3>2, <3>3
  <2>2. betId[o] \in 1..Len(exch) /\ exch[betId[o]].ref = o
    BY <1>3, <1>4, <2>1 DEF OneBetInv, OwnBet, TypeInv, OrdersOK
  <2>3. BetsOf(o) # {}
    BY <1>3, <1>4, <2>2, LeftBounds
  <2>4. LeftOf(o) = 0
    BY <1>3, <1>4, <1>10, SettledLeft DEF DoneInv, StatusDone
  <2>5. Ledger!Move(o, "closed", "open")
    <3>1. /\ PhaseOf(o) = "closed" /\ PhaseOf(o)' = "open"
          /\ \A x \in Order \ {o} : PhaseOf(x)' = PhaseOf(x)
      <4>1. s \in Open
        BY <1>10 DEF Open, OrderStatus
      <4> QED
        BY <1>2, <1>3, <1>4, <1>10, <4>1, PhaseMapped, StatusPhases
    <3> QED
      BY <1>4, <3>1, Moves
  <2>6. Ledger!Reopen(o)
    BY <1>2, <1>4, <2>3, <2>4, <2>5, SameBets DEF Ledger!Reopen
  <2> QED
    BY <1>4, <2>6 DEF Ledger!Next
<1> QED
  BY <1>5, <1>6, <1>7, <1>8, <1>9, <1>10

\* The order learns from the report of its place, unless a record came first.
LEMMA EnterMaps ==
  ASSUME LedgerSafe, NEW p \in Package, EnterTrade(p)
  PROVE  Ledger!Next \/ UNCHANGED Ledger!vars
<1>1. PICK o, r : o = Item(p).order /\ r = Item(p).report
  OBVIOUS
<1>2. /\ pkg[p].pc = "next" /\ pkg[p].work # <<>> /\ o # NoOrder
      /\ UNCHANGED <<status, exch>>
  BY <1>1 DEF EnterTrade
<1>3. TypeInv /\ BetInv /\ ViewInv /\ OneBetInv /\ UntoldInv
  BY DEF LedgerSafe, LedgerInv
<1>4. o \in Order /\ remaining \in [Order -> 0..Size]
  BY <1>1, <1>2, <1>3, ItemType DEF TypeInv, OrdersOK
<1>5. CASE remaining' = remaining
  BY <1>2, <1>5, QuietMaps
<1>6. ASSUME pkg[p].type = "PLACE", o \notin seen, remaining' = [remaining EXCEPT ![o] = r.size]
      PROVE  Ledger!Next
  <2>1. /\ r.size \in 0..Size
        /\ r.bet # 0 => /\ r.bet \in 1..Len(exch) /\ exch[r.bet].left <= r.size
                        /\ exch[r.bet].ref = o
        /\ r.bet = 0 => r.size = Size
    <3>1. /\ ReportOK("PLACE", r) /\ r.size \in 0..Size
          /\ r.bet # 0 => /\ r.bet \in 1..Len(exch) /\ exch[r.bet].left <= r.size
                          /\ exch[r.bet].ref = o
      BY <1>1, <1>2, <1>3, <1>6, HeadClaim
    <3> QED
      BY <3>1 DEF ReportOK
  <2>2. remaining[o] = Size
    <3>1. Unread(pkg[p], 1) /\ Items(pkg[p])[1].order = o
      BY <1>1, <1>2, <1>3, <1>6, ItemHead DEF Unread, Spent, Items
    <3>2. o \in seen \/ betId[o] = 0
      BY <1>3, <3>1 DEF UntoldInv
    <3> QED
      BY <1>3, <1>4, <1>6, <3>2 DEF UntoldInv
  <2>3. LeftOf(o) \in 0..Size /\ LeftOf(o) <= r.size
    <3>1. r.bet # 0 => LeftOf(o) = exch[r.bet].left
      BY <1>3, <1>4, <2>1, LeftBounds
    <3>2. LeftOf(o) \in 0..Size
      BY <1>3, <1>4, LeftBounds
    <3> QED
      BY <2>1, <3>1, <3>2, BoundAssumption
  <2>4. r.size \in LeftOf(o)..remaining[o]
    BY <2>1, <2>2, <2>3, BoundAssumption
  <2>5. Ledger!LearnOf(o)
    BY <1>3, <1>4, <1>6, <2>4, Learns
  <2>6. Ledger!Learn(o)
    BY <1>2, <2>5, PhaseMapped, SamePhases, SameBets DEF Ledger!Learn
  <2> QED
    BY <1>4, <2>6 DEF Ledger!Next
<1>7. \/ remaining' = remaining
      \/ /\ pkg[p].type = "PLACE" /\ o \notin seen
         /\ remaining' = [remaining EXCEPT ![o] = r.size]
  <2>1. CASE pkg[p].type # "PLACE"
    BY <2>1 DEF EnterTrade
  <2>2. CASE pkg[p].type = "PLACE"
    <3>1. remaining' = [remaining EXCEPT ![o] = PlacedRemaining(o, r)]
      BY <1>1, <2>2 DEF EnterTrade
    <3>2. CASE o \in seen
      BY <1>4, <3>1, <3>2 DEF PlacedRemaining
    <3>3. CASE o \notin seen
      BY <2>2, <3>1, <3>3 DEF PlacedRemaining
    <3> QED
      BY <3>2, <3>3
  <2> QED
    BY <2>1, <2>2
<1> QED
  BY <1>5, <1>6, <1>7

\* A record tells an order what is left of its bet, and closes it when nothing is.
LEMMA ProcessMaps ==
  ASSUME LedgerSafe, NEW b \in Bets, ProcessCurrentOrder(b)
  PROVE  Ledger!Next \/ UNCHANGED Ledger!vars
<1>1. PICK o : o = exch[b].ref
  OBVIOUS
<1>2. TypeInv /\ LedgerInv /\ OneBetInv
  BY DEF LedgerSafe, LedgerInv
<1>3. /\ o \in Order /\ b \in DOMAIN current /\ OrderOf(b) = o
      /\ remaining' = [remaining EXCEPT ![o] = current[b]] /\ exch' = exch
  BY <1>1, <1>2, RecordFields, RecordOrder
<1>4. b \in 1..Len(exch) /\ exch[b].left <= current[b] /\ current[b] \in 0..Size
  <2>1. b \in 1..Len(exch) /\ current[b] \in 0..Size
    BY <1>2, <1>3, RecordTypes
  <2> QED
    BY <1>3, <2>1 DEF LedgerSafe, ViewInv, RecordView, Recorded
<1>5. LeftOf(o) = exch[b].left /\ exch[b].left \in 0..Size
  BY <1>1, <1>2, <1>3, <1>4, LeftBounds
<1>6. current[b] <= remaining[o] /\ remaining[o] \in 0..Size
  BY <1>1, <1>2, <1>3 DEF LedgerInv, FallInv, Falls, TypeInv, OrdersOK
<1>7. current[b] \in LeftOf(o)..remaining[o] /\ current[b] \in 0..remaining[o]
  BY <1>4, <1>5, <1>6, BoundAssumption
<1>8. CASE \A x \in Order : PhaseOf(x)' = PhaseOf(x)
  <2>1. Ledger!LearnOf(o)
    BY <1>2, <1>3, <1>7, Learns
  <2>2. Ledger!Learn(o)
    BY <1>3, <1>8, <2>1, SamePhases, SameBets DEF Ledger!Learn
  <2> QED
    BY <1>3, <2>2 DEF Ledger!Next
<1> DEFINE bet == IF AsyncPlace /\ betId[o] = 0 THEN b ELSE betId[o]
<1>9. PICK s : s = NewStatus(o, bet, current[b])
  OBVIOUS
<1>10. status' = status \/ (status' = [status EXCEPT ![o] = s] /\ s # status[o])
  BY <1>3, <1>9 DEF ProcessCurrentOrder, UpdateStatus
<1>11. s # status[o] => /\ status[o] \in {"PENDING", "EXECUTABLE"}
                        /\ \/ s = "EXECUTABLE"
                           \/ s = "EXECUTION_COMPLETE" /\ ~(current[b] > 0)
  <2>1. current[b] = 0 => ~(current[b] > 0)
    OBVIOUS
  <2> QED
    BY <1>9, <2>1 DEF NewStatus
<1>12. {"PENDING", "EXECUTABLE"} \subseteq Open
  BY DEF Open, OrderStatus
<1>13. CASE status' = status
  BY <1>8, <1>13, PhaseMapped
<1>14. ASSUME status' = [status EXCEPT ![o] = s], s # status[o], s = "EXECUTABLE"
       PROVE  \A x \in Order : PhaseOf(x)' = PhaseOf(x)
  <2>1. /\ PhaseOf(o) = "open" /\ PhaseOf(o)' = "open"
        /\ \A x \in Order \ {o} : PhaseOf(x)' = PhaseOf(x)
    BY <1>2, <1>3, <1>11, <1>12, <1>14, PhaseMapped, StatusPhases
  <2> QED
    BY <2>1
<1>15. ASSUME status' = [status EXCEPT ![o] = s], s # status[o], s = "EXECUTION_COMPLETE"
       PROVE  Ledger!Next
  <2>1. LeftOf(o) = 0
    BY <1>4, <1>5, <1>11, <1>15, BoundAssumption
  <2>2. status[o] \in Open
    BY <1>11, <1>12, <1>15
  <2> QED
    BY <1>2, <1>3, <1>7, <1>15, <2>1, <2>2, Closes
<1> QED
  BY <1>8, <1>10, <1>11, <1>13, <1>14, <1>15

\* Every step of a thread and of its request
LEMMA ThreadMaps ==
  ASSUME LedgerSafe, NoControls, NEW p \in Package,
         Thread(p) \/ RequestError(p) \/ RequestBroken(p)
  PROVE  Ledger!Next \/ UNCHANGED Ledger!vars
<1>1. pkg[p].type # "REPLACE" /\ pkg[p].pc \notin {"create", "settle"}
  BY DEF LedgerSafe, WaitInv, AnswersBy
<1>2. ~ExchangeReplace(p) /\ ~CreateReplacement(p) /\ ~SettleReplacement(p)
  BY <1>1 DEF ExchangeReplace, Processing, CreateReplacement, SettleReplacement
<1>3. CASE \/ SendRequest(p) \/ AbandonRequest(p) \/ RequestError(p) \/ RequestBroken(p)
           \/ ExchangeUpdate(p) \/ Reply(p) \/ Finish(p)
           \/ PassReport(p) \/ ClearUpdateData(p) \/ ExitTrade(p) \/ ReleaseTrade(p)
  <2>1. UNCHANGED <<status, exch, remaining>>
    BY <1>3 DEF SendRequest, AbandonRequest, RequestError, RequestBroken, ExchangeUpdate,
                Processing, Reply, Finish, PassReport, ClearUpdateData, ExitTrade,
                ReleaseTrade, orderVars
  <2> QED
    BY <2>1, QuietMaps
<1> QED
  BY <1>2, <1>3, PlaceMaps, CancelMaps, EnterMaps, ApplyMaps DEF Thread

LEMMA NextMaps ==
  ASSUME LedgerSafe, NoControls, NoReplaces, MaxRestarts = 0, [Next]_vars
  PROVE  [Ledger!Next]_(Ledger!vars)
<1>1. ~Restart
  BY DEF Restart, LedgerSafe, TypeInv, CountsOK
<1>2. \A b \in Bets : ~CreateOrderFromCurrent(b)
  BY DEF CreateOrderFromCurrent, LedgerSafe, CountInv, Bets
<1>3. CASE Strategy
  BY <1>3, StrategyMaps DEF Strategy
<1>4. CASE Main
  BY <1>2, <1>4, StrategyMaps, MainMaps, ProcessMaps DEF Main
<1>5. CASE Snap \/ UNCHANGED vars
  BY <1>5, MainMaps
<1>6. CASE \E p \in Package : Thread(p) \/ RequestError(p) \/ RequestBroken(p)
  BY <1>6, ThreadMaps
<1>7. CASE \E b \in Bets : ExchangeMatch(b)
  BY <1>7, MatchMaps
<1> QED
  BY <1>1, <1>3, <1>4, <1>5, <1>6, <1>7 DEF Next

LEMMA InitMaps ==
  ASSUME Init
  PROVE  Ledger!Init
<1>1. \A o \in Order : PhaseOf(o) = "unborn"
  BY DEF Init, PhaseOf
<1>2. \A o \in Order : BetsOf(o) = {} /\ LeftOf(o) = 0
  BY DEF Init, LeftOf, BetsOf, Bets
<1>3. remaining = [o \in Order |-> Size]
  BY DEF Init
<1> QED
  BY <1>1, <1>2, <1>3 DEF Ledger!Init

-----------------------------------------------------------------------------
(* The theorem *)

LEMMA LedgerSafeInit ==
  ASSUME Init
  PROVE  LedgerSafe
BY LiveSafeInit, CountInit, LedgerInit DEF LiveSafe, LedgerSafe

LEMMA LedgerSafeNext ==
  ASSUME NoControls, FullCancels, NoReplaces, MaxRestarts = 0, LedgerSafe, [Next]_vars
  PROVE  LedgerSafe'
<1>0. Aligned
  BY DEF NoControls, Aligned
<1>1. TypeInv' /\ TrackedInv'
  BY TypeStep, TrackedNext DEF LedgerSafe
<1>2. BetInv' /\ ViewInv'
  BY <1>0, <1>1, BetNext, ViewNext DEF LedgerSafe
<1>3. DoneInv' /\ WaitInv'
  BY <1>0, <1>1, <1>2, DoneNext, WaitNext DEF LedgerSafe
<1>4. CountInv' /\ LedgerInv'
  BY <1>0, <1>1, CountNext, LedgerNext DEF LedgerSafe
<1> QED
  BY <1>1, <1>2, <1>3, <1>4 DEF LedgerSafe

\* The orders follow the ledger (ImplementsLedgerSafely): whatever the pool threads, the
\* order stream and the main thread do in between, the exchange makes one bet for an
\* order and only while it is open, size_remaining never rises nor falls below what is
\* left of the bet, and execution_complete() is never called over a bet that is still
\* live.  A control that marks an order in flight a violation, a cancel of a part, a
\* replace and a restart each break it.
THEOREM ImplementsLedgerSafe ==
  NoControls /\ FullCancels /\ NoReplaces /\ MaxRestarts = 0 => (Spec => ImplementsLedgerSafely)
<1>1. Init => LedgerSafe /\ Ledger!Init
  BY LedgerSafeInit, InitMaps
<1>2. ASSUME NoControls, FullCancels, NoReplaces, MaxRestarts = 0
      PROVE  LedgerSafe /\ [Next]_vars => LedgerSafe' /\ [Ledger!Next]_(Ledger!vars)
  BY <1>2, LedgerSafeNext, NextMaps
<1>3. CASE NoControls /\ FullCancels /\ NoReplaces /\ MaxRestarts = 0
  BY <1>1, <1>2, <1>3, PTL DEF Spec, ImplementsLedgerSafely, Ledger!Spec
<1> QED
  BY <1>3
===============================================================================
