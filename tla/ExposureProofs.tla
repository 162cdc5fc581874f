--------------------------- MODULE ExposureProofs ---------------------------
(***************************************************************************)
(* The proofs about Exposure: as long as get_exposures has not lost sight  *)
(* of a bet, what it reads is never better than what the bets are worth,   *)
(* and the limit it guards is kept, whatever the exchange does meanwhile.  *)
(* Last, what get_nearest_price of Prices returns, for every price.        *)
(***************************************************************************)
EXTENDS Exposure, FiniteSetTheorems, TLAPS

-----------------------------------------------------------------------------
(* Sums *)

\* A sum has finitely many units.
LEMMA UnitsFinite ==
  ASSUME NEW f \in [Order -> Nat]
  PROVE  IsFiniteSet(Units(f))
<1> DEFINE Col(o) == {o} \X (1..f[o])
           T == {Col(o) : o \in Order}
           g == [o \in Order |-> Col(o)]
<1>1. g \in Surjection(Order, T)
  BY DEF Surjection
<1>2. IsFiniteSet(T)
  BY <1>1, FS_Surjection, OrderAssumption
<1>3. ASSUME NEW c \in T
      PROVE  IsFiniteSet(c)
  <2>1. PICK o \in Order : c = Col(o)
    OBVIOUS
  <2>2. 1 \in Int /\ f[o] \in Int
    OBVIOUS
  <2>3. IsFiniteSet(1..f[o])
    BY <2>2, FS_Interval
  <2>4. IsFiniteSet({o})
    BY FS_Singleton
  <2> QED
    BY <2>1, <2>3, <2>4, FS_Product
<1>4. IsFiniteSet(UNION T)
  BY <1>2, <1>3, FS_UNION
<1> QED
  BY <1>4 DEF Units

LEMMA SumType ==
  ASSUME NEW f \in [Order -> Nat]
  PROVE  Sum(f) \in Nat
BY UnitsFinite, FS_CardinalityType DEF Sum

\* A sum of zeros is zero.
LEMMA SumZero ==
  ASSUME NEW f \in [Order -> Nat], \A o \in Order : f[o] = 0
  PROVE  Sum(f) = 0
<1>1. Units(f) = {}
  BY DEF Units
<1> QED
  BY <1>1, FS_EmptySet DEF Sum

\* A sum grows with its terms.
LEMMA SumMono ==
  ASSUME NEW f \in [Order -> Nat], NEW g \in [Order -> Nat],
         \A o \in Order : f[o] <= g[o]
  PROVE  Sum(f) <= Sum(g)
<1>1. Units(f) \subseteq Units(g)
  <2> SUFFICES ASSUME NEW o \in Order, NEW i \in 1..f[o]
               PROVE  <<o, i>> \in Units(g)
    BY DEF Units
  <2>1. i \in 1..g[o]
    OBVIOUS
  <2> QED
    BY <2>1 DEF Units
<1> QED
  BY <1>1, UnitsFinite, FS_Subset DEF Sum

\* A term that was zero adds itself.
LEMMA SumAdd ==
  ASSUME NEW f \in [Order -> Nat], NEW g \in [Order -> Nat], NEW x \in Order,
         f[x] = 0, \A o \in Order \ {x} : f[o] = g[o]
  PROVE  Sum(g) = Sum(f) + g[x]
<1> DEFINE C == {x} \X (1..g[x])
<1>1. Units(g) = Units(f) \cup C
  <2>1. \A u \in Units(g) : u \in Units(f) \cup C
    BY DEF Units
  <2>2. \A u \in Units(f) : u \in Units(g)
    <3> SUFFICES ASSUME NEW o \in Order, NEW i \in 1..f[o]
                 PROVE  <<o, i>> \in Units(g)
      BY DEF Units
    <3>1. o # x
      OBVIOUS
    <3>2. i \in 1..g[o]
      BY <3>1
    <3> QED
      BY <3>2 DEF Units
  <2>3. \A u \in C : u \in Units(g)
    BY DEF Units
  <2> QED
    BY <2>1, <2>2, <2>3
<1>2. Units(f) \cap C = {}
  BY DEF Units
<1>3. IsFiniteSet(C) /\ Cardinality(C) = g[x]
  <2>1. IsFiniteSet({x}) /\ Cardinality({x}) = 1
    BY FS_Singleton
  <2>2. 1 \in Int /\ g[x] \in Int /\ g[x] \in Nat
    OBVIOUS
  <2>3. IsFiniteSet(1..g[x]) /\ Cardinality(1..g[x]) = IF 1 > g[x] THEN 0 ELSE g[x] - 1 + 1
    BY <2>2, FS_Interval
  <2>4. Cardinality(1..g[x]) = g[x]
    BY <2>2, <2>3
  <2>5. IsFiniteSet(C) /\ Cardinality(C) = 1 * g[x]
    BY <2>1, <2>3, <2>4, FS_Product
  <2> QED
    BY <2>2, <2>5
<1>4. Cardinality(Units(g)) = Cardinality(Units(f)) + g[x] - Cardinality({})
  BY <1>1, <1>2, <1>3, UnitsFinite, FS_Union
<1> QED
  BY <1>4, FS_EmptySet, UnitsFinite, FS_CardinalityType DEF Sum

-----------------------------------------------------------------------------
(* The inductive invariants *)

\* A bet is never larger than what was asked for.
Bounded == \A o \in Order : exch[o].matched + exch[o].open <= terms[o].amount

TypeInv == TypeOK /\ Bounded

\* Position p of order o is worth no more than q, whether the selection wins or
\* loses.
NoBetter(o, p, q) ==
  IF Back(o)
  THEN /\ p.cost <= q.cost
       /\ q.matched + q.open <= p.matched + p.open
  ELSE /\ q.cost + Liability(o, q.open) <= p.cost + Liability(o, p.open)
       /\ p.matched <= q.matched

\* What get_exposures takes an order of the blotter for
Taken(o) == IF Limit(o) THEN view[o] ELSE Unplaced(terms[o])

\* Orders outside the blotter have no bet; the others are taken for no better
\* than their bet is.
Sighted ==
  /\ \A o \in Order : o \notin blotter => exch[o] = Nothing
  /\ \A o \in blotter : status[o] # "None"
  /\ \A o \in blotter : NoBetter(o, Taken(o), exch[o])
  /\ \A o \in blotter : status[o] = "PENDING" /\ o \notin seen => view[o] = Unplaced(terms[o])

IInv == TypeInv /\ (Blind \/ (Sighted /\ SelectionLimit))

-----------------------------------------------------------------------------
(* Type correctness *)

\* The order a call creates has not been used.
LEMMA FreshUnused ==
  ASSUME Unused # {}
  PROVE  Fresh \in Order /\ status[Fresh] = "None"
BY DEF Fresh, Unused

LEMMA TermsType ==
  ASSUME NEW t \in Terms
  PROVE  /\ t.amount \in Nat
         /\ t \in [side : {"BACK", "LAY"}, type : Types \cup {"LIMIT"},
                   odds : Odds \cup {0}, amount : Nat]
         /\ Unplaced(t) = [matched |-> 0, cost |-> 0, open |-> t.amount]
BY AmountAssumption DEF Terms, Unplaced, Nothing

\* A place response is a position.
LEMMA ResponseType ==
  ASSUME TypeInv, NEW r \in Order
  PROVE  /\ Response(r) = [matched |-> exch[r].matched, cost |-> exch[r].cost,
                           open |-> terms[r].amount - exch[r].matched]
         /\ Response(r) \in Position
<1>1. exch[r] \in Position /\ terms[r].amount \in Nat
  BY DEF TypeInv, TypeOK
<1>2. exch[r].matched + exch[r].open <= terms[r].amount
  BY DEF TypeInv, Bounded
<1>3. Response(r) = [matched |-> exch[r].matched, cost |-> exch[r].cost,
                     open |-> terms[r].amount - exch[r].matched]
  BY <1>1 DEF Response, Position
<1> QED
  BY <1>1, <1>2, <1>3 DEF Position

\* A quotient by a price is no more than what is divided.
LEMMA Quotient ==
  ASSUME NEW n \in Nat, NEW p \in Odds
  PROVE  n \div p \in 0..n
<1>1. p \in Nat /\ p >= 1
  BY AmountAssumption
<1> QED
  BY <1>1

\* Every step keeps the types, and no bet grows beyond its order.
LEMMA TypeStep ==
  ASSUME TypeInv, [Next]_vars
  PROVE  TypeInv'
<1> USE OrderAssumption DEF TypeInv, TypeOK, Bounded
<1>1. ASSUME NEW o \in Order, NEW t \in Terms, PlaceOrder(o, t)
      PROVE  TypeInv'
  BY <1>1, TermsType DEF PlaceOrder, Placed, marketVars, Status, Position
<1>2. ASSUME NEW o \in Order, NEW t \in Terms, NEW r \in Order, PlaceOrderTorn(o, t, r)
      PROVE  TypeInv'
  <2>1. Response(r) \in Position
    BY ResponseType
  <2>5. Unplaced(t) \in Position
    BY TermsType DEF Position
  <2>6. view' \in [Order -> Position]
    BY <1>2, <2>1, <2>5 DEF PlaceOrderTorn
  <2>2. status' \in [Order -> Status] /\ view' \in [Order -> Position]
    BY <1>2, <2>6 DEF PlaceOrderTorn, Status
  <2>3. exch' \in [Order -> Position] /\ Bounded'
    BY <1>2, TermsType DEF PlaceOrderTorn, Placed, Position
  <2> QED
    BY <1>2, <2>2, <2>3, TermsType DEF PlaceOrderTorn, Placed, marketVars
<1>3. ASSUME NEW o \in Order, NEW t \in Terms, RejectPlace(o, t)
      PROVE  TypeInv'
  BY <1>3 DEF RejectPlace, exchVars, marketVars, Status
<1>4. ASSUME NEW o \in Order, CancelOrder(o) \/ RejectRequest(o)
      PROVE  TypeInv'
  BY <1>4 DEF CancelOrder, RejectRequest, exchVars, marketVars, Status
<1>5. ASSUME NEW o \in Order, NEW odds \in Odds, ReplaceOrder(o, odds)
      PROVE  TypeInv'
  BY <1>5 DEF ReplaceOrder, exchVars, marketVars, Status
<1>6. ASSUME NEW o \in Order, StreamRecord(o)
      PROVE  TypeInv'
  BY <1>6 DEF StreamRecord, Recorded, exchVars, marketVars, Status
<1>7. ASSUME NEW o \in Order, PlaceReply(o)
      PROVE  TypeInv'
  BY <1>7, ResponseType DEF PlaceReply, exchVars, marketVars, Status
<1>8. ASSUME NEW o \in Order, PlaceFailed(o)
      PROVE  TypeInv'
  <2>1. exch[o] \in Position /\ 0 <= terms[o].amount
    OBVIOUS
  <2>2. exch' \in [Order -> Position] /\ Bounded'
    BY <1>8, <2>1 DEF PlaceFailed, Nothing, Position
  <2> QED
    BY <1>8, <2>2 DEF PlaceFailed, marketVars, Status
<1>18. ASSUME NEW o \in Order, ReplaceHalf(o)
      PROVE  TypeInv'
  BY <1>18 DEF ReplaceHalf, Position, marketVars, Status
<1>9. ASSUME NEW o \in Order, NEW n \in 0..exch[o].open, CancelReply(o, n)
      PROVE  TypeInv'
  BY <1>9 DEF CancelReply, Position, marketVars, Status
<1>10. ASSUME NEW o \in Order, NEW n \in Order, ExchangeReplace(o, n)
      PROVE  TypeInv'
  <2> DEFINE t == [terms[o] EXCEPT !.odds = newOdds[o], !.amount = exch[o].open]
  <2>1. exch[o] \in Position /\ exch[n] \in Position /\ status[o] # "None"
    BY <1>10 DEF ExchangeReplace
  <2>2. /\ t \in [side : {"BACK", "LAY"}, type : Types \cup {"LIMIT"},
                  odds : Odds \cup {0}, amount : Nat]
        /\ t.amount = exch[o].open
    <3>1. terms[o] \in [side : {"BACK", "LAY"}, type : Types \cup {"LIMIT"},
                        odds : Odds \cup {0}, amount : Nat]
      OBVIOUS
    <3>2. exch[o].open \in Nat /\ newOdds[o] \in Odds \cup {0}
      BY <2>1 DEF Position
    <3> QED
      BY <3>1, <3>2
  <2>3. /\ terms' = [terms EXCEPT ![n] = t]
        /\ exch' = [exch EXCEPT ![o] = [exch[o] EXCEPT !.open = 0], ![n] = Unplaced(t)]
    BY <1>10 DEF ExchangeReplace
  <2> HIDE DEF t
  <2>4. Unplaced(t) = [matched |-> 0, cost |-> 0, open |-> exch[o].open]
    BY <2>2 DEF Unplaced, Nothing
  <2>5. [exch[o] EXCEPT !.open = 0] = [matched |-> exch[o].matched, cost |-> exch[o].cost, open |-> 0]
    BY <2>1 DEF Position
  <2>6. o # n
    BY <1>10, FreshUnused, <2>1 DEF ExchangeReplace
  <2>7. exch' \in [Order -> Position]
    <3>1. [exch[o] EXCEPT !.open = 0] \in Position /\ Unplaced(t) \in Position
      BY <2>1, <2>4, <2>5 DEF Position
    <3> QED
      BY <2>3, <3>1
  <2>8. Bounded'
    <3> SUFFICES ASSUME NEW x \in Order
                 PROVE  exch'[x].matched + exch'[x].open <= terms'[x].amount
      OBVIOUS
    <3>1. CASE x = n
      <4>1. terms'[x] = t /\ exch'[x] = Unplaced(t)
        BY <2>3, <3>1
      <4> QED
        BY <2>1, <2>2, <2>4, <4>1 DEF Position
    <3>2. CASE x = o
      <4>1. terms'[x] = terms[x] /\ exch'[x] = [exch[o] EXCEPT !.open = 0]
        BY <2>3, <2>6, <3>2
      <4>2. exch[o].matched \in Nat /\ exch[o].open \in Nat
        BY <2>1 DEF Position
      <4>3. exch'[x].matched = exch[o].matched /\ exch'[x].open = 0
        BY <2>5, <4>1
      <4>4. terms[o].amount \in Nat /\ exch[o].matched + exch[o].open <= terms[o].amount
        OBVIOUS
      <4> QED
        BY <3>2, <4>1, <4>2, <4>3, <4>4
    <3>3. CASE x # n /\ x # o
      BY <2>3, <3>3
    <3> QED
      BY <3>1, <3>2, <3>3
  <2>9. /\ replacement' = [replacement EXCEPT ![o] = n]
        /\ status' = [status EXCEPT ![n] = "New"]
        /\ UNCHANGED <<view, seen, blotter, newOdds, marketVars, torn>>
    BY <1>10 DEF ExchangeReplace
  <2>10. /\ status' \in [Order -> Status]
         /\ replacement' \in [Order -> Order \cup {NoOrder}]
         /\ terms' \in [Order -> [side : {"BACK", "LAY"}, type : Types \cup {"LIMIT"},
                                  odds : Odds \cup {0}, amount : Nat]]
    BY <2>2, <2>3, <2>9 DEF Status
  <2> QED
    BY <2>7, <2>8, <2>9, <2>10 DEF marketVars
<1>11. ASSUME NEW o \in Order, ReplaceReply(o)
      PROVE  TypeInv'
  BY <1>11, ResponseType DEF ReplaceReply, exchVars, marketVars, Status
<1>12. ASSUME NEW o \in Order, ReplaceRefused(o)
      PROVE  TypeInv'
  BY <1>12 DEF ReplaceRefused, exchVars, marketVars, Status
<1>13. ASSUME NEW o \in Order, NEW p \in Odds, NEW n \in 1..exch[o].open, Match(o, n, p)
      PROVE  TypeInv'
  <2>1. p * n \in Nat /\ exch[o] \in Position
    BY AmountAssumption DEF Position
  <2> QED
    BY <1>13, <2>1 DEF Match, orderVars, marketVars, Position
<1>14. ASSUME NEW o \in Order, NEW p \in Odds, MatchAtSP(o, p)
      PROVE  TypeInv'
  <2>1. p * exch[o].open \in Nat /\ exch[o] \in Position /\ exch[o].open \div p \in 0..exch[o].open
    BY AmountAssumption, Quotient DEF Position
  <2> QED
    BY <1>14, <2>1 DEF MatchAtSP, orderVars, marketVars, Position
<1>15. ASSUME NEW o \in Order, Lapse(o)
      PROVE  TypeInv'
  <2>1. exch' \in [Order -> Position]
    BY <1>15 DEF Lapse, Position
  <2>2. UNCHANGED <<orderVars, replacement, marketVars, torn>>
    BY <1>15 DEF Lapse
  <2>3. \A x \in Order : exch'[x].matched = exch[x].matched /\ exch'[x].open \in {0, exch[x].open}
    BY <1>15 DEF Lapse, Position
  <2>4. Bounded'
    <3> SUFFICES ASSUME NEW x \in Order
                 PROVE  exch'[x].matched + exch'[x].open <= terms[x].amount
      BY <2>2 DEF Bounded, orderVars
    <3>1. exch[x].matched \in Nat /\ exch[x].open \in Nat /\ terms[x].amount \in Nat
          /\ exch[x].matched + exch[x].open <= terms[x].amount
      BY DEF Position, Bounded
    <3> QED
      BY <2>3, <3>1
  <2> QED
    BY <2>1, <2>2, <2>4 DEF orderVars, marketVars
<1>16. CASE Suspend \/ Reopen
  BY <1>16, AmountAssumption DEF Suspend, Reopen, orderVars, exchVars
<1>17. CASE UNCHANGED vars
  BY <1>17 DEF vars, orderVars, exchVars, marketVars
<1> QED
  BY <1>1, <1>2, <1>3, <1>4, <1>5, <1>6, <1>7, <1>8, <1>9, <1>10, <1>11, <1>12, <1>13, <1>14,
     <1>15, <1>16, <1>17, <1>18 DEF Next, MainThread, PoolThreads, Exchange

\* Spec => []TypeOK: in particular no place response leaves a negative size
\* (order.py, size_remaining).
THEOREM TypeCorrect == Spec => []TypeOK
<1>1. ASSUME Init PROVE TypeInv
  <2>1. Nothing \in Position /\ Nothing.matched + Nothing.open <= NoTerms.amount
    BY DEF Nothing, Position, NoTerms
  <2>2. NoTerms \in [side : {"BACK", "LAY"}, type : Types \cup {"LIMIT"},
                     odds : Odds \cup {0}, amount : Nat]
    BY DEF NoTerms
  <2>3. suspensions \in 0..MaxSuspensions
    BY <1>1, AmountAssumption DEF Init
  <2> QED
    BY <1>1, <2>1, <2>2, <2>3 DEF Init, TypeInv, TypeOK, Bounded, Status
<1>2. TypeInv /\ [Next]_vars => TypeInv'
  BY TypeStep
<1>3. TypeInv => TypeOK
  BY DEF TypeInv
<1> QED
  BY <1>1, <1>2, <1>3, PTL DEF Spec

-----------------------------------------------------------------------------
(* What the bets are worth *)

\* The four sums of WorstOnWin and WorstOnLose
WinGain(pos) == [o \in Order |-> IF Back(o) THEN pos[o].cost ELSE 0]
WinLoss(pos) ==
  [o \in Order |-> IF Back(o) THEN 0 ELSE pos[o].cost + Liability(o, pos[o].open)]
LoseGain(pos) == [o \in Order |-> IF Back(o) THEN 0 ELSE pos[o].matched]
LoseLoss(pos) == [o \in Order |-> IF Back(o) THEN pos[o].matched + pos[o].open ELSE 0]

LEMMA OddsType ==
  ASSUME TypeOK, NEW o \in Order
  PROVE  terms[o].odds \in Nat /\ terms[o].amount \in Nat
<1>1. terms[o] \in [side : {"BACK", "LAY"}, type : Types \cup {"LIMIT"},
                    odds : Odds \cup {0}, amount : Nat]
  BY DEF TypeOK
<1>2. terms[o].odds \in Odds \cup {0} /\ terms[o].amount \in Nat
  BY <1>1
<1>3. \A x \in Odds \cup {0} : x \in Nat
  BY AmountAssumption
<1> QED
  BY <1>2, <1>3

LEMMA LiabilityType ==
  ASSUME TypeOK, NEW o \in Order, NEW n \in Nat
  PROVE  Liability(o, n) \in Nat
<1>1. terms[o].odds \in Nat
  BY OddsType
<1>2. terms[o].odds * n \in Nat
  BY <1>1
<1> QED
  BY <1>2 DEF Liability

\* A larger open size has a larger liability.
LEMMA LiabilityMono ==
  ASSUME TypeOK, NEW o \in Order, NEW m \in Nat, NEW n \in Nat, m <= n
  PROVE  Liability(o, m) <= Liability(o, n)
<1>1. terms[o].odds \in Nat
  BY OddsType
<1>2. PICK d \in Nat : n = m + d
  <2>1. n - m \in Nat /\ n = m + (n - m)
    OBVIOUS
  <2> QED
    BY <2>1
<1>3. terms[o].odds * n = terms[o].odds * m + terms[o].odds * d
  BY <1>1, <1>2
<1>4. terms[o].odds * d \in Nat /\ terms[o].odds * m \in Nat
  BY <1>1, <1>2
<1> QED
  BY <1>3, <1>4 DEF Liability

LEMMA PartsType ==
  ASSUME TypeOK, NEW p \in [Order -> Position]
  PROVE  /\ WinGain(p) \in [Order -> Nat] /\ WinLoss(p) \in [Order -> Nat]
         /\ LoseGain(p) \in [Order -> Nat] /\ LoseLoss(p) \in [Order -> Nat]
<1>1. ASSUME NEW o \in Order
      PROVE  p[o].matched \in Nat /\ p[o].cost \in Nat /\ p[o].open \in Nat
  BY DEF Position
<1>2. ASSUME NEW o \in Order
      PROVE  p[o].cost + Liability(o, p[o].open) \in Nat
  BY <1>1, LiabilityType
<1> QED
  BY <1>1, <1>2 DEF WinGain, WinLoss, LoseGain, LoseLoss

\* The same of the next state
PartsAreTyped ==
  \A p \in [Order -> Position] :
    /\ WinGain(p) \in [Order -> Nat] /\ WinLoss(p) \in [Order -> Nat]
    /\ LoseGain(p) \in [Order -> Nat] /\ LoseLoss(p) \in [Order -> Nat]

LEMMA PartsTypeNext == TypeOK' => PartsAreTyped'
<1>1. TypeOK => PartsAreTyped
  BY PartsType DEF PartsAreTyped
<1> QED
  BY <1>1, PTL

LEMMA Parts ==
  ASSUME NEW p
  PROVE  /\ WorstOnWin(p) = Sum(WinGain(p)) - Sum(WinLoss(p))
         /\ WorstOnLose(p) = Sum(LoseGain(p)) - Sum(LoseLoss(p))
BY DEF WorstOnWin, WorstOnLose, WinGain, WinLoss, LoseGain, LoseLoss

LEMMA WorstType ==
  ASSUME TypeOK, NEW p \in [Order -> Position]
  PROVE  WorstOnWin(p) \in Int /\ WorstOnLose(p) \in Int
BY Parts, PartsType, SumType

\* Positions that are no better one by one are no better together.
LEMMA NoBetterSum ==
  ASSUME TypeOK, NEW p \in [Order -> Position], NEW q \in [Order -> Position],
         \A o \in Order : NoBetter(o, p[o], q[o])
  PROVE  WorstOnWin(p) <= WorstOnWin(q) /\ WorstOnLose(p) <= WorstOnLose(q)
<1>1. \A o \in Order : /\ WinGain(p)[o] <= WinGain(q)[o] /\ WinLoss(q)[o] <= WinLoss(p)[o]
                       /\ LoseGain(p)[o] <= LoseGain(q)[o] /\ LoseLoss(q)[o] <= LoseLoss(p)[o]
  BY DEF WinGain, WinLoss, LoseGain, LoseLoss, NoBetter
<1>2. /\ Sum(WinGain(p)) <= Sum(WinGain(q)) /\ Sum(WinLoss(q)) <= Sum(WinLoss(p))
      /\ Sum(LoseGain(p)) <= Sum(LoseGain(q)) /\ Sum(LoseLoss(q)) <= Sum(LoseLoss(p))
  BY <1>1, PartsType, SumMono
<1>3. /\ Sum(WinGain(p)) \in Nat /\ Sum(WinGain(q)) \in Nat
      /\ Sum(WinLoss(p)) \in Nat /\ Sum(WinLoss(q)) \in Nat
      /\ Sum(LoseGain(p)) \in Nat /\ Sum(LoseGain(q)) \in Nat
      /\ Sum(LoseLoss(p)) \in Nat /\ Sum(LoseLoss(q)) \in Nat
  BY PartsType, SumType
<1> QED
  BY <1>2, <1>3, Parts

LEMMA NoBetterTrans ==
  ASSUME TypeOK, NEW o \in Order,
         NEW p \in Position, NEW q \in Position, NEW r \in Position,
         NoBetter(o, p, q), NoBetter(o, q, r)
  PROVE  NoBetter(o, p, r)
<1>1. /\ Liability(o, p.open) \in Nat /\ Liability(o, q.open) \in Nat
      /\ Liability(o, r.open) \in Nat
  BY LiabilityType DEF Position
<1> QED
  BY <1>1 DEF NoBetter, Position

LEMMA NoBetterSelf ==
  ASSUME TypeOK, NEW o \in Order, NEW p \in Position
  PROVE  NoBetter(o, p, p)
<1>1. Liability(o, p.open) \in Nat
  BY LiabilityType DEF Position
<1> QED
  BY <1>1 DEF NoBetter, Position

-----------------------------------------------------------------------------
(* The limit *)

\* Once a bet is out of sight the exposure stays so.
LEMMA StaysBlind ==
  ASSUME TypeInv, [Next]_vars, Blind
  PROVE  Blind'
<1> DEFINE Keeps ==
             /\ torn => torn'
             /\ \A x \in Order : replacement[x] # NoOrder => replacement'[x] # NoOrder
             /\ blotter \subseteq blotter'
             /\ \A x \in Order : status[x] = "VIOLATION" => status'[x] = "VIOLATION"
<1>0. ASSUME Keeps PROVE Blind'
  <2>1. CASE torn
    BY <1>0, <2>1 DEF Blind
  <2>2. CASE Replacements # {}
    <3>1. PICK x \in Order : replacement[x] # NoOrder
      BY <2>2 DEF Replacements
    <3>2. replacement'[x] \in Replacements'
      BY <1>0, <3>1 DEF Replacements
    <3> QED
      BY <3>2 DEF Blind
  <2>3. CASE \E x \in blotter : status[x] = "VIOLATION"
    <3>1. PICK x \in blotter : status[x] = "VIOLATION"
      BY <2>3
    <3>2. x \in blotter' /\ status'[x] = "VIOLATION"
      BY <1>0, <3>1 DEF TypeInv, TypeOK
    <3> QED
      BY <3>2 DEF Blind
  <2> QED
    BY <2>1, <2>2, <2>3 DEF Blind
<1> SUFFICES Keeps \/ Replacements' # {}
  BY <1>0 DEF Blind
<1> USE OrderAssumption DEF TypeInv, TypeOK
<1>1. ASSUME NEW o \in Order, NEW t \in Terms,
             PlaceOrder(o, t) \/ RejectPlace(o, t) \/ (\E r \in Order : PlaceOrderTorn(o, t, r))
      PROVE  Keeps
  BY <1>1, FreshUnused DEF PlaceOrder, RejectPlace, PlaceOrderTorn, Placed, exchVars
<1>2. ASSUME NEW o \in Order, CancelOrder(o) \/ RejectRequest(o) \/ StreamRecord(o)
      PROVE  Keeps
  BY <1>2 DEF CancelOrder, RejectRequest, StreamRecord, Requestable, exchVars
<1>3. ASSUME NEW o \in Order, NEW odds \in Odds, ReplaceOrder(o, odds)
      PROVE  Keeps
  BY <1>3 DEF ReplaceOrder, Requestable, exchVars
<1>4. ASSUME NEW o \in Order, PlaceReply(o) \/ PlaceFailed(o)
                              \/ ReplaceRefused(o) \/ ReplaceHalf(o)
      PROVE  Keeps
  BY <1>4 DEF PlaceReply, PlaceFailed, ReplaceRefused, ReplaceHalf, exchVars
<1>11. ASSUME NEW o \in Order, ReplaceReply(o)
       PROVE  Replacements' # {}
  <2>1. replacement'[o] # NoOrder
    BY <1>11 DEF ReplaceReply, exchVars
  <2> QED
    BY <2>1 DEF Replacements
<1>5. ASSUME NEW o \in Order, NEW n \in 0..exch[o].open, CancelReply(o, n)
      PROVE  Keeps
  BY <1>5 DEF CancelReply
<1>6. ASSUME NEW o \in Order, NEW n \in Order, ExchangeReplace(o, n)
      PROVE  Replacements' # {}
  <2>1. replacement' = [replacement EXCEPT ![o] = n]
    BY <1>6 DEF ExchangeReplace
  <2>2. replacement'[o] # NoOrder
    BY <2>1
  <2> QED
    BY <2>2 DEF Replacements
<1>7. ASSUME NEW o \in Order, NEW p \in Odds,
             MatchAtSP(o, p) \/ Lapse(o) \/ (\E n \in 1..exch[o].open : Match(o, n, p))
      PROVE  Keeps
  BY <1>7 DEF MatchAtSP, Lapse, Match, orderVars
<1>8. ASSUME NEW o \in Order, Lapse(o)
      PROVE  Keeps
  BY <1>8 DEF Lapse, orderVars
<1>9. CASE Suspend \/ Reopen
  BY <1>9 DEF Suspend, Reopen, orderVars, exchVars
<1>10. CASE UNCHANGED vars
  BY <1>10 DEF vars, orderVars, exchVars
<1> QED
  BY <1>1, <1>2, <1>3, <1>4, <1>5, <1>6, <1>7, <1>8, <1>9, <1>10, <1>11
  DEF Next, MainThread, PoolThreads, Exchange

LEMMA TakenType ==
  ASSUME TypeOK, NEW o \in Order
  PROVE  Taken(o) \in Position /\ Nothing \in Position
<1>1. terms[o].amount \in Nat
  BY OddsType
<1>2. Unplaced(terms[o]) \in Position /\ Nothing \in Position
  BY <1>1 DEF Unplaced, Nothing, Position
<1> QED
  BY <1>2 DEF Taken, TypeOK

\* What get_exposures reads is no better than the bets are.
LEMMA ReadNoBetter ==
  ASSUME TypeInv, Sighted, ~Blind
  PROVE  /\ Read(NoOrder) \in [Order -> Position]
         /\ WorstOnWin(Read(NoOrder)) <= WorstOnWin(exch)
         /\ WorstOnLose(Read(NoOrder)) <= WorstOnLose(exch)
<1>1. TypeOK /\ exch \in [Order -> Position]
  BY DEF TypeInv, TypeOK
<1>2. Read(NoOrder) = [o \in Order |-> IF o \in blotter THEN Taken(o) ELSE Nothing]
  BY OrderAssumption DEF Read, Taken, Blind
<1>3. Read(NoOrder) \in [Order -> Position]
  BY <1>1, <1>2, TakenType
<1>4. ASSUME NEW o \in Order
      PROVE  NoBetter(o, Read(NoOrder)[o], exch[o])
  <2>1. CASE o \in blotter
    BY <1>2, <2>1 DEF Sighted
  <2>2. CASE o \notin blotter
    <3>1. Read(NoOrder)[o] = Nothing /\ exch[o] = Nothing
      BY <1>2, <2>2 DEF Sighted
    <3> QED
      BY <1>1, <3>1, NoBetterSelf, TakenType
  <2> QED
    BY <2>1, <2>2
<1> QED
  BY <1>1, <1>3, <1>4, NoBetterSum

\* With the terms unchanged, positions are compared as before.
LEMMA SameTerms ==
  ASSUME terms' = terms, NEW o \in Order, NEW p, NEW q
  PROVE  NoBetter(o, p, q)' <=> NoBetter(o, p, q)
BY DEF NoBetter, Back, Liability, Limit

\* A step that leaves the terms and the blotter alone, in which no bet gets
\* worse and what is newly read of a bet is no better than it is
LEMMA CautiousStep ==
  ASSUME TypeInv, TypeInv', Sighted, SelectionLimit,
         terms' = terms, blotter' = blotter, seen \subseteq seen',
         \A o \in Order : exch'[o] = exch[o] \/ (o \in blotter /\ NoBetter(o, exch[o], exch'[o])),
         \A o \in Order : view'[o] = view[o] \/ (Limit(o) => NoBetter(o, view'[o], exch'[o])),
         \A o \in Order : status'[o] = status[o] \/ status'[o] \notin {"None", "PENDING"},
         \A o \in Order : view'[o] = view[o] \/ o \in seen' \/ status'[o] # "PENDING"
  PROVE  Sighted' /\ SelectionLimit'
<1>1. /\ TypeOK /\ exch \in [Order -> Position] /\ exch' \in [Order -> Position]
      /\ blotter \subseteq Order
  BY DEF TypeInv, TypeOK
<1>2. ASSUME NEW o \in Order
      PROVE  NoBetter(o, exch[o], exch'[o])
  BY <1>1, <1>2, NoBetterSelf
<1>3. WorstOnWin(exch)' = WorstOnWin(exch') /\ WorstOnLose(exch)' = WorstOnLose(exch')
  BY DEF WorstOnWin, WorstOnLose, Back, Liability, Limit
<1>4. SelectionLimit'
  <2>1. /\ WorstOnWin(exch) <= WorstOnWin(exch')
        /\ WorstOnLose(exch) <= WorstOnLose(exch')
    BY <1>1, <1>2, NoBetterSum
  <2>2. /\ WorstOnWin(exch) \in Int /\ WorstOnWin(exch') \in Int
        /\ WorstOnLose(exch) \in Int /\ WorstOnLose(exch') \in Int
    BY <1>1, WorstType
  <2>3. -MaxSelection \in Int
    BY AmountAssumption
  <2> QED
    BY <1>3, <2>1, <2>2, <2>3 DEF SelectionLimit
<1>5. \A o \in Order : o \notin blotter' => exch'[o] = Nothing
  BY DEF Sighted
<1>6. \A o \in blotter' : status'[o] # "None"
  BY <1>1 DEF Sighted
<1>7. ASSUME NEW o \in blotter'
      PROVE  NoBetter(o, Taken(o), exch[o])'
  <2>1. o \in Order /\ o \in blotter
    BY <1>1
  <2>2. NoBetter(o, Taken(o), exch[o])
    BY <2>1 DEF Sighted
  <2>3. Taken(o) \in Position
    BY <1>1, <2>1, TakenType
  <2>4. NoBetter(o, Taken(o), exch'[o])
    BY <1>1, <1>2, <2>1, <2>2, <2>3, NoBetterTrans
  <2>5. NoBetter(o, Taken(o)', exch'[o])
    <3>1. CASE view'[o] = view[o] \/ ~Limit(o)
      <4>1. Taken(o)' = Taken(o)
        BY <3>1 DEF Taken, Limit
      <4> QED
        BY <2>4, <4>1
    <3>2. CASE Limit(o) /\ NoBetter(o, view'[o], exch'[o])
      <4>1. Taken(o)' = view'[o]
        BY <3>2 DEF Taken, Limit
      <4> QED
        BY <3>2, <4>1
    <3> QED
      BY <2>1, <3>1, <3>2
  <2> QED
    BY <2>1, <2>5 DEF NoBetter, Back, Liability, Limit
<1>8. \A o \in blotter' : status'[o] = "PENDING" /\ o \notin seen' =>
                            view'[o] = Unplaced(terms'[o])
  <2> SUFFICES ASSUME NEW o \in blotter, status'[o] = "PENDING", o \notin seen'
               PROVE  view'[o] = Unplaced(terms[o])
    OBVIOUS
  <2>1. o \in Order /\ status[o] = "PENDING" /\ o \notin seen /\ view'[o] = view[o]
    BY <1>1
  <2> QED
    BY <2>1 DEF Sighted
<1> QED
  BY <1>4, <1>5, <1>6, <1>7, <1>8 DEF Sighted

\* Matching, cancelling and lapsing never make a bet worse.
LEMMA ExchangeImproves ==
  ASSUME TypeInv, NEW o \in Order
  PROVE  /\ \A n \in 0..exch[o].open : NoBetter(o, exch[o], [exch[o] EXCEPT !.open = @ - n])
         /\ \A p \in Odds, n \in 1..exch[o].open :
              Limit(o) /\ (IF Back(o) THEN p >= terms[o].odds ELSE p <= terms[o].odds) =>
              NoBetter(o, exch[o], [matched |-> exch[o].matched + n,
                                    cost |-> exch[o].cost + p * n, open |-> exch[o].open - n])
         /\ \A p \in Odds : ~Limit(o) =>
              NoBetter(o, exch[o],
                [matched |-> exch[o].matched + IF Back(o) THEN exch[o].open ELSE exch[o].open \div p,
                 cost |-> exch[o].cost + IF Back(o) THEN p * exch[o].open ELSE exch[o].open,
                 open |-> 0])
<1>1. /\ exch[o].matched \in Nat /\ exch[o].cost \in Nat /\ exch[o].open \in Nat
      /\ exch[o] \in Position
  BY DEF TypeInv, TypeOK, Position
<1>2. TypeOK /\ terms[o].odds \in Nat
  BY OddsType DEF TypeInv
<1>3. ASSUME NEW n \in 0..exch[o].open
      PROVE  NoBetter(o, exch[o], [exch[o] EXCEPT !.open = @ - n])
  <2>1. exch[o].open - n \in Nat /\ exch[o].open - n <= exch[o].open
    BY <1>1
  <2>2. Liability(o, exch[o].open - n) <= Liability(o, exch[o].open)
    BY <1>1, <1>2, <2>1, LiabilityMono
  <2>3. Liability(o, exch[o].open - n) \in Nat /\ Liability(o, exch[o].open) \in Nat
    BY <1>1, <1>2, <2>1, LiabilityType
  <2>4. [exch[o] EXCEPT !.open = @ - n]
        = [matched |-> exch[o].matched, cost |-> exch[o].cost, open |-> exch[o].open - n]
    BY <1>1 DEF Position
  <2> QED
    BY <1>1, <2>1, <2>2, <2>3, <2>4 DEF NoBetter
<1>4. ASSUME NEW p \in Odds, NEW n \in 1..exch[o].open, Limit(o),
             IF Back(o) THEN p >= terms[o].odds ELSE p <= terms[o].odds
      PROVE  NoBetter(o, exch[o], [matched |-> exch[o].matched + n,
                                   cost |-> exch[o].cost + p * n, open |-> exch[o].open - n])
  <2>1. p \in Nat /\ n \in Nat /\ exch[o].open - n \in Nat /\ p * n \in Nat
    BY <1>1, AmountAssumption
  <2>2. CASE Back(o)
    BY <1>1, <2>1, <2>2 DEF NoBetter
  <2>3. CASE ~Back(o)
    <3>1. p <= terms[o].odds
      BY <1>4, <2>3
    <3>2. PICK d \in Nat : terms[o].odds = p + d
      <4>1. terms[o].odds - p \in Nat /\ terms[o].odds = p + (terms[o].odds - p)
        BY <1>2, <2>1, <3>1
      <4> QED
        BY <4>1
    <3>3. PICK k \in Nat : exch[o].open = n + k
      <4>1. exch[o].open - n \in Nat /\ exch[o].open = n + (exch[o].open - n)
        BY <1>1, <2>1
      <4> QED
        BY <4>1
    <3>4. /\ Liability(o, exch[o].open) = p * n + d * n + Liability(o, exch[o].open - n)
          /\ Liability(o, exch[o].open - n) \in Nat /\ d * n \in Nat
      <4>1. exch[o].open - n = k
        BY <2>1, <3>3
      <4>2. (p + d) * (n + k) = p * n + d * n + (p + d) * k
        BY <2>1, <3>2, <3>3
      <4>3. (p + d) * k \in Nat /\ d * n \in Nat
        BY <2>1, <3>2, <3>3
      <4> QED
        BY <1>4, <3>2, <3>3, <4>1, <4>2, <4>3 DEF Liability
    <3> QED
      BY <1>1, <2>1, <2>3, <3>4 DEF NoBetter
  <2> QED
    BY <2>2, <2>3
<1>5. ASSUME NEW p \in Odds, ~Limit(o)
      PROVE  NoBetter(o, exch[o],
               [matched |-> exch[o].matched + IF Back(o) THEN exch[o].open ELSE exch[o].open \div p,
                cost |-> exch[o].cost + IF Back(o) THEN p * exch[o].open ELSE exch[o].open,
                open |-> 0])
  <2>1. p * exch[o].open \in Nat /\ exch[o].open \div p \in Nat
    BY <1>1, AmountAssumption, Quotient
  <2>2. Liability(o, 0) = 0 /\ Liability(o, exch[o].open) = exch[o].open
    BY <1>5 DEF Liability
  <2> QED
    BY <1>1, <2>1, <2>2 DEF NoBetter
<1> QED
  BY <1>3, <1>4, <1>5

\* An order that the controls let pass is within what is left of the limit.
LEMMA PlaceWithin ==
  ASSUME TypeInv, TypeInv', Sighted, SelectionLimit, ~Blind,
         NEW o \in Order, NEW t \in Terms, PlaceOrder(o, t)
  PROVE  SelectionLimit'
<1>1. /\ o \notin blotter /\ exch[o] = Nothing
      /\ exch' = [exch EXCEPT ![o] = Unplaced(t)] /\ terms' = [terms EXCEPT ![o] = t]
      /\ WithinExposure(t, Read(NoOrder))
  BY FreshUnused DEF PlaceOrder, Placed, MayPlace, Sighted
<1>2. /\ TypeOK /\ TypeOK' /\ exch \in [Order -> Position] /\ exch' \in [Order -> Position]
      /\ terms \in [Order -> [side : {"BACK", "LAY"}, type : Types \cup {"LIMIT"},
                              odds : Odds \cup {0}, amount : Nat]]
  BY DEF TypeInv, TypeOK
<1>3. /\ WinGain(exch) \in [Order -> Nat] /\ WinLoss(exch) \in [Order -> Nat]
      /\ LoseGain(exch) \in [Order -> Nat] /\ LoseLoss(exch) \in [Order -> Nat]
  BY <1>2, PartsType
<1>4. /\ WinGain(exch)' \in [Order -> Nat] /\ WinLoss(exch)' \in [Order -> Nat]
      /\ LoseGain(exch)' \in [Order -> Nat] /\ LoseLoss(exch)' \in [Order -> Nat]
  <2>1. PartsAreTyped'
    BY <1>2, PartsTypeNext
  <2>2. /\ [x \in Order |-> IF Back(x)' THEN exch'[x].cost ELSE 0] \in [Order -> Nat]
        /\ [x \in Order |-> IF Back(x)' THEN 0
              ELSE exch'[x].cost + Liability(x, exch[x].open)'] \in [Order -> Nat]
        /\ [x \in Order |-> IF Back(x)' THEN 0 ELSE exch'[x].matched] \in [Order -> Nat]
        /\ [x \in Order |-> IF Back(x)' THEN exch'[x].matched + exch'[x].open ELSE 0]
             \in [Order -> Nat]
    BY <1>2, <2>1 DEF PartsAreTyped, WinGain, WinLoss, LoseGain, LoseLoss, Liability, Limit
  <2> QED
    BY <2>2 DEF WinGain, WinLoss, LoseGain, LoseLoss
<1>5. /\ exch'[o] = [matched |-> 0, cost |-> 0, open |-> t.amount] /\ terms'[o] = t
      /\ exch[o] = [matched |-> 0, cost |-> 0, open |-> 0]
  BY <1>1, <1>2, TermsType DEF Nothing
<1>6. t.amount \in Nat /\ t.side \in {"BACK", "LAY"} /\ t.odds \in Nat
  <2>1. t \in [side : {"BACK", "LAY"}, type : Types \cup {"LIMIT"},
               odds : Odds \cup {0}, amount : Nat]
    BY TermsType
  <2>2. \A x \in Odds \cup {0} : x \in Nat
    BY AmountAssumption
  <2> QED
    BY <2>1, <2>2
<1>7. /\ Sum(WinGain(exch)') = Sum(WinGain(exch)) + WinGain(exch)'[o]
      /\ Sum(WinLoss(exch)') = Sum(WinLoss(exch)) + WinLoss(exch)'[o]
      /\ Sum(LoseGain(exch)') = Sum(LoseGain(exch)) + LoseGain(exch)'[o]
      /\ Sum(LoseLoss(exch)') = Sum(LoseLoss(exch)) + LoseLoss(exch)'[o]
  <2>1. /\ WinGain(exch)[o] = 0 /\ WinLoss(exch)[o] = 0
        /\ LoseGain(exch)[o] = 0 /\ LoseLoss(exch)[o] = 0
    BY <1>2, <1>5, OddsType DEF WinGain, WinLoss, LoseGain, LoseLoss, Liability
  <2>2. ASSUME NEW x \in Order \ {o}
        PROVE  /\ WinGain(exch)[x] = WinGain(exch)'[x] /\ WinLoss(exch)[x] = WinLoss(exch)'[x]
               /\ LoseGain(exch)[x] = LoseGain(exch)'[x] /\ LoseLoss(exch)[x] = LoseLoss(exch)'[x]
    <3>1. exch'[x] = exch[x] /\ terms'[x] = terms[x]
      BY <1>1, <1>2
    <3> QED
      BY <3>1 DEF WinGain, WinLoss, LoseGain, LoseLoss, Liability, Back, Limit
  <2> QED
    BY <1>3, <1>4, <2>1, <2>2, SumAdd
<1>8. /\ WinGain(exch)'[o] = 0 /\ LoseGain(exch)'[o] = 0
      /\ WinLoss(exch)'[o] = IF t.side = "BACK" THEN 0 ELSE OrderExposure(t)
      /\ LoseLoss(exch)'[o] = IF t.side = "BACK" THEN OrderExposure(t) ELSE 0
      /\ OrderExposure(t) \in Nat
  <2>1. t.odds * t.amount \in Nat
    BY <1>6
  <2> QED
    BY <1>5, <1>6, <2>1 DEF WinGain, WinLoss, LoseGain, LoseLoss, Liability, Back, Limit, OrderExposure
<1>9. /\ WorstOnWin(exch)' = WorstOnWin(exch) - IF t.side = "BACK" THEN 0 ELSE OrderExposure(t)
      /\ WorstOnLose(exch)' = WorstOnLose(exch) - IF t.side = "BACK" THEN OrderExposure(t) ELSE 0
  <2>1. /\ WorstOnWin(exch)' = Sum(WinGain(exch)') - Sum(WinLoss(exch)')
        /\ WorstOnLose(exch)' = Sum(LoseGain(exch)') - Sum(LoseLoss(exch)')
    BY DEF WorstOnWin, WorstOnLose, WinGain, WinLoss, LoseGain, LoseLoss, Sum, Units
  <2>2. /\ Sum(WinGain(exch)) \in Nat /\ Sum(WinLoss(exch)) \in Nat
        /\ Sum(LoseGain(exch)) \in Nat /\ Sum(LoseLoss(exch)) \in Nat
    BY <1>3, SumType
  <2> QED
    BY <1>7, <1>8, <2>1, <2>2, Parts
<1>10. /\ WorstOnWin(Read(NoOrder)) <= WorstOnWin(exch)
       /\ WorstOnLose(Read(NoOrder)) <= WorstOnLose(exch)
       /\ WorstOnWin(Read(NoOrder)) \in Int /\ WorstOnLose(Read(NoOrder)) \in Int
       /\ WorstOnWin(exch) \in Int /\ WorstOnLose(exch) \in Int
  BY <1>2, ReadNoBetter, WorstType
<1> QED
  BY <1>1, <1>6, <1>8, <1>9, <1>10, AmountAssumption DEF WithinExposure, SelectionLimit

\* The new order is read for what it is; the others are where they were.
LEMMA PlaceSighted ==
  ASSUME TypeInv, TypeInv', Sighted, NEW o \in Order, NEW t \in Terms, PlaceOrder(o, t)
  PROVE  Sighted'
<1>1. /\ o \notin blotter /\ blotter' = blotter \cup {o} /\ seen' = seen
      /\ exch' = [exch EXCEPT ![o] = Unplaced(t)] /\ terms' = [terms EXCEPT ![o] = t]
      /\ view' = [view EXCEPT ![o] = Unplaced(t)] /\ status' = [status EXCEPT ![o] = "PENDING"]
  BY FreshUnused DEF PlaceOrder, Placed, Sighted
<1>2. /\ exch \in [Order -> Position] /\ view \in [Order -> Position]
      /\ status \in [Order -> Status] /\ blotter \subseteq Order /\ TypeOK'
      /\ terms \in [Order -> [side : {"BACK", "LAY"}, type : Types \cup {"LIMIT"},
                              odds : Odds \cup {0}, amount : Nat]]
  BY DEF TypeInv, TypeOK
<1>3. \A x \in Order : x \notin blotter' => exch'[x] = Nothing
  BY <1>1, <1>2 DEF Sighted
<1>4. \A x \in blotter' : status'[x] # "None"
  BY <1>1, <1>2 DEF Sighted
<1>5. \A x \in blotter' : status'[x] = "PENDING" /\ x \notin seen' => view'[x] = Unplaced(terms'[x])
  BY <1>1, <1>2 DEF Sighted
<1>6. ASSUME NEW x \in blotter'
      PROVE  NoBetter(x, Taken(x), exch[x])'
  <2>1. CASE x = o
    <3>1. Taken(x)' = Unplaced(t) /\ exch'[x] = Unplaced(t)
      BY <1>1, <1>2, <2>1 DEF Taken
    <3>2. /\ Unplaced(t).cost = 0 /\ Unplaced(t).matched = 0 /\ Unplaced(t).open = t.amount
          /\ t.amount \in Nat
      BY TermsType
    <3>3. t.odds \in Nat
      <4>1. terms'[o].odds \in Odds \cup {0} /\ terms'[o] = t
        BY <1>1, <1>2 DEF TypeOK
      <4>2. \A y \in Odds \cup {0} : y \in Nat
        BY AmountAssumption
      <4> QED
        BY <4>1, <4>2
    <3>4. terms'[x] = t /\ t.odds * t.amount \in Nat
      BY <1>1, <1>2, <2>1, <3>2, <3>3
    <3> QED
      BY <3>1, <3>2, <3>4 DEF NoBetter, Liability, Back, Limit
  <2>2. CASE x # o
    <3>1. x \in blotter /\ x \in Order
      BY <1>1, <1>2, <2>2
    <3>2. exch'[x] = exch[x] /\ terms'[x] = terms[x] /\ view'[x] = view[x]
      BY <1>1, <1>2, <2>2, <3>1
    <3>3. NoBetter(x, Taken(x), exch[x])
      BY <3>1 DEF Sighted
    <3> QED
      BY <3>2, <3>3 DEF NoBetter, Taken, Liability, Back, Limit
  <2> QED
    BY <2>1, <2>2
<1> QED
  BY <1>3, <1>4, <1>5, <1>6 DEF Sighted

\* As long as no bet is lost sight of, every step keeps the limit.
LEMMA LimitStep ==
  ASSUME IInv, [Next]_vars
  PROVE  IInv'
<1>1. TypeInv /\ TypeInv'
  BY TypeStep DEF IInv
<1> SUFFICES ASSUME ~Blind'
             PROVE  Sighted' /\ SelectionLimit'
  BY <1>1 DEF IInv
<1>2. ~Blind /\ Sighted /\ SelectionLimit
  BY <1>1, StaysBlind DEF IInv
<1> DEFINE Quiet == /\ terms' = terms /\ blotter' = blotter /\ seen' = seen
                    /\ \A x \in Order : view'[x] = view[x]
                    /\ \A x \in Order : status'[x] = status[x] \/ status'[x] \notin {"None", "PENDING"}
<1>3. /\ exch \in [Order -> Position] /\ view \in [Order -> Position]
      /\ status \in [Order -> Status] /\ blotter \subseteq Order
  BY <1>1 DEF TypeInv, TypeOK
<1>4. ASSUME Quiet,
             \A x \in Order : exch'[x] = exch[x] \/ (x \in blotter /\ NoBetter(x, exch[x], exch'[x]))
      PROVE  Sighted' /\ SelectionLimit'
  BY <1>1, <1>2, <1>4, CautiousStep
<1>5. ASSUME NEW o \in Order, NEW q \in Position, Quiet, exch' = [exch EXCEPT ![o] = q],
             NoBetter(o, exch[o], q), q # exch[o] => exch[o] # Nothing
      PROVE  Sighted' /\ SelectionLimit'
  <2>1. ASSUME NEW x \in Order
        PROVE  exch'[x] = exch[x] \/ (x \in blotter /\ NoBetter(x, exch[x], exch'[x]))
    <3>1. CASE x = o
      BY <1>2, <1>3, <1>5, <3>1 DEF Sighted
    <3>2. CASE x # o
      BY <1>3, <1>5, <3>2
    <3> QED
      BY <3>1, <3>2
  <2> QED
    BY <1>4, <1>5, <2>1
<1>6. ASSUME NEW o \in Order, NEW t \in Terms, PlaceOrder(o, t)
      PROVE  Sighted' /\ SelectionLimit'
  BY <1>1, <1>2, <1>6, PlaceSighted, PlaceWithin
<1>7. ASSUME NEW o \in Order, NEW t \in Terms, NEW r \in Order, PlaceOrderTorn(o, t, r)
      PROVE  FALSE
  BY <1>7 DEF PlaceOrderTorn, Blind
<1>8. ASSUME NEW o \in Order, NEW t \in Terms, RejectPlace(o, t)
      PROVE  Sighted' /\ SelectionLimit'
  BY <1>3, <1>4, <1>8 DEF RejectPlace, exchVars
<1>9. ASSUME NEW o \in Order, CancelOrder(o) \/ RejectRequest(o)
      PROVE  Sighted' /\ SelectionLimit'
  BY <1>3, <1>4, <1>9 DEF CancelOrder, RejectRequest, exchVars
<1>10. ASSUME NEW o \in Order, NEW odds \in Odds, ReplaceOrder(o, odds)
       PROVE  Sighted' /\ SelectionLimit'
  BY <1>3, <1>4, <1>10 DEF ReplaceOrder, exchVars
<1>11. ASSUME NEW o \in Order, StreamRecord(o)
       PROVE  Sighted' /\ SelectionLimit'
  <2>1. /\ exch' = exch /\ terms' = terms /\ blotter' = blotter /\ seen' = seen \cup {o}
        /\ view' = [view EXCEPT ![o] = exch[o]]
        /\ \A x \in Order : status'[x] = status[x] \/ status'[x] \notin {"None", "PENDING"}
    BY <1>3, <1>11 DEF StreamRecord, Recorded, exchVars
  <2>2. NoBetter(o, exch[o], exch[o])
    BY <1>1, <1>3, NoBetterSelf DEF TypeInv
  <2>3. \A x \in Order : view'[x] = view[x] \/ (Limit(x) => NoBetter(x, view'[x], exch'[x]))
    BY <1>3, <2>1, <2>2
  <2>4. \A x \in Order : view'[x] = view[x] \/ x \in seen'
    BY <1>3, <2>1
  <2> QED
    BY <1>1, <1>2, <2>1, <2>3, <2>4, CautiousStep
<1>12. ASSUME NEW o \in Order, PlaceReply(o)
       PROVE  Sighted' /\ SelectionLimit'
  <2>1. /\ exch' = exch /\ terms' = terms /\ blotter' = blotter /\ seen' = seen
        /\ view' \in {view, [view EXCEPT ![o] = Response(o)]}
        /\ status' = [status EXCEPT ![o] = "EXECUTABLE"]
    BY <1>12 DEF PlaceReply, exchVars
  <2>2. NoBetter(o, Response(o), exch[o])
    <3>1. /\ exch[o].matched \in Nat /\ exch[o].cost \in Nat /\ exch[o].open \in Nat
          /\ terms[o].amount - exch[o].matched \in Nat
          /\ exch[o].open <= terms[o].amount - exch[o].matched
          /\ TypeOK /\ terms[o].amount \in Nat
      BY <1>1, <1>3, OddsType DEF TypeInv, Bounded, Position
    <3>2. Liability(o, exch[o].open) <= Liability(o, terms[o].amount - exch[o].matched)
      BY <3>1, LiabilityMono
    <3>3. /\ Liability(o, exch[o].open) \in Nat
          /\ Liability(o, terms[o].amount - exch[o].matched) \in Nat
      BY <3>1, LiabilityType
    <3> QED
      BY <1>1, <3>1, <3>2, <3>3, ResponseType DEF NoBetter
  <2>3. \A x \in Order : view'[x] = view[x] \/ (Limit(x) => NoBetter(x, view'[x], exch'[x]))
    BY <1>3, <2>1, <2>2
  <2>4. \A x \in Order : /\ status'[x] = status[x] \/ status'[x] \notin {"None", "PENDING"}
                         /\ view'[x] = view[x] \/ status'[x] # "PENDING"
    BY <1>3, <2>1
  <2> QED
    BY <1>1, <1>2, <2>1, <2>3, <2>4, CautiousStep
<1>13. ASSUME NEW o \in Order
       PROVE  /\ exch[o].matched \in Nat /\ exch[o].cost \in Nat /\ exch[o].open \in Nat
              /\ exch[o].open > 0 => exch[o] # Nothing
  BY <1>3 DEF Position, Nothing
<1>25. ASSUME NEW o \in Order, NEW n \in Nat
       PROVE  /\ [exch[o] EXCEPT !.open = n] \in Position
              /\ n = exch[o].open => [exch[o] EXCEPT !.open = n] = exch[o]
  <2>1. exch[o] \in Position
    BY <1>3
  <2> QED
    BY <2>1 DEF Position
<1>14. ASSUME NEW o \in Order, PlaceFailed(o)
       PROVE  Sighted' /\ SelectionLimit'
  <2>1. /\ Quiet /\ exch' = [exch EXCEPT ![o] = Nothing] /\ exch[o] = Unplaced(terms[o])
    BY <1>3, <1>14 DEF PlaceFailed
  <2>2. TypeOK /\ Nothing \in Position /\ terms[o].amount \in Nat
    BY <1>1, TakenType, OddsType DEF TypeInv
  <2>3. Liability(o, 0) \in Nat /\ Liability(o, 0) <= Liability(o, terms[o].amount)
    BY <2>2, LiabilityType, LiabilityMono
  <2>4. NoBetter(o, exch[o], Nothing)
    BY <2>1, <2>2, <2>3, LiabilityType DEF NoBetter, Unplaced, Nothing
  <2> QED
    BY <1>5, <2>1, <2>2, <2>4
<1>15. ASSUME NEW o \in Order, NEW n \in 0..exch[o].open, CancelReply(o, n)
       PROVE  Sighted' /\ SelectionLimit'
  <2> DEFINE q == [exch[o] EXCEPT !.open = @ - n]
  <2>1. Quiet /\ exch' = [exch EXCEPT ![o] = q]
    BY <1>3, <1>15 DEF CancelReply
  <2>2. NoBetter(o, exch[o], q)
    BY <1>1, ExchangeImproves
  <2>3. exch[o].open - n \in Nat /\ (exch[o].open = 0 => exch[o].open - n = exch[o].open)
    BY <1>13
  <2>4. q \in Position
    BY <1>25, <2>3
  <2>5. q # exch[o] => exch[o].open > 0
    <3>1. ASSUME exch[o].open = 0
          PROVE  q = exch[o]
      BY <1>25, <2>3, <3>1
    <3> HIDE DEF q
    <3> QED
      BY <1>13, <3>1
  <2> HIDE DEF q
  <2> QED
    BY <1>5, <1>13, <2>1, <2>2, <2>4, <2>5
<1>16. ASSUME NEW o \in Order, exch[o].open > 0, Quiet, exch' = [exch EXCEPT ![o].open = 0]
       PROVE  Sighted' /\ SelectionLimit'
  <2> DEFINE q == [exch[o] EXCEPT !.open = 0]
  <2>1. exch' = [exch EXCEPT ![o] = q]
    BY <1>16
  <2>2. exch[o].open - exch[o].open = 0 /\ exch[o].open \in 0..exch[o].open
    BY <1>13
  <2>3. NoBetter(o, exch[o], q)
    <3>1. NoBetter(o, exch[o], [exch[o] EXCEPT !.open = @ - exch[o].open])
      BY <1>1, <2>2, ExchangeImproves
    <3> QED
      BY <2>2, <3>1
  <2>4. q \in Position
    BY <1>25
  <2> HIDE DEF q
  <2> QED
    BY <1>5, <1>13, <1>16, <2>1, <2>3, <2>4
<1>17. ASSUME NEW o \in Order, ReplaceHalf(o) \/ Lapse(o)
       PROVE  Sighted' /\ SelectionLimit'
  <2>1. Quiet /\ exch[o].open > 0 /\ exch' = [exch EXCEPT ![o].open = 0]
    BY <1>3, <1>17 DEF ReplaceHalf, Lapse, orderVars
  <2> QED
    BY <1>16, <2>1
<1>18. ASSUME NEW o \in Order, NEW n \in Order, ExchangeReplace(o, n)
       PROVE  FALSE
  <2>1. replacement' = [replacement EXCEPT ![o] = n] /\ replacement \in [Order -> Order \cup {NoOrder}]
    BY <1>1, <1>18 DEF ExchangeReplace, TypeInv, TypeOK
  <2>2. replacement'[o] = n /\ n # NoOrder
    BY <2>1, OrderAssumption
  <2> QED
    BY <2>2 DEF Blind, Replacements
<1>19. ASSUME NEW o \in Order, ReplaceReply(o)
       PROVE  FALSE
  BY <1>2, <1>19 DEF ReplaceReply, Blind, Replacements
<1>20. ASSUME NEW o \in Order, ReplaceRefused(o)
       PROVE  Sighted' /\ SelectionLimit'
  BY <1>3, <1>4, <1>20 DEF ReplaceRefused, exchVars
<1>21. ASSUME NEW o \in Order, NEW p \in Odds, NEW n \in 1..exch[o].open, Match(o, n, p)
       PROVE  Sighted' /\ SelectionLimit'
  <2> DEFINE q == [matched |-> exch[o].matched + n, cost |-> exch[o].cost + p * n,
                   open |-> exch[o].open - n]
  <2>1. Quiet /\ exch' = [exch EXCEPT ![o] = q]
    BY <1>3, <1>21 DEF Match, orderVars
  <2>2. NoBetter(o, exch[o], q)
    BY <1>1, <1>21, ExchangeImproves DEF Match
  <2>3. q \in Position /\ exch[o].open > 0
    <3>1. p \in Nat /\ n \in Nat
      BY <1>13, AmountAssumption
    <3>2. /\ p * n \in Nat /\ exch[o].open - n \in Nat /\ exch[o].open > 0
          /\ exch[o].matched + n \in Nat
      BY <1>13, <3>1
    <3> QED
      BY <1>13, <3>2 DEF Position
  <2> HIDE DEF q
  <2> QED
    BY <1>5, <1>13, <2>1, <2>2, <2>3
<1>22. ASSUME NEW o \in Order, NEW p \in Odds, MatchAtSP(o, p)
       PROVE  Sighted' /\ SelectionLimit'
  <2> DEFINE q == [matched |-> exch[o].matched + IF Back(o) THEN exch[o].open ELSE exch[o].open \div p,
                   cost |-> exch[o].cost + IF Back(o) THEN p * exch[o].open ELSE exch[o].open,
                   open |-> 0]
  <2>1. Quiet /\ exch' = [exch EXCEPT ![o] = q] /\ ~Limit(o) /\ exch[o].open > 0
    BY <1>3, <1>22 DEF MatchAtSP, orderVars
  <2>2. NoBetter(o, exch[o], q)
    BY <1>1, <2>1, ExchangeImproves
  <2>3. q \in Position
    <3>1. p * exch[o].open \in Nat /\ exch[o].open \div p \in Nat
      BY <1>13, AmountAssumption, Quotient
    <3> QED
      BY <1>13, <3>1 DEF Position
  <2> HIDE DEF q
  <2> QED
    BY <1>5, <1>13, <2>1, <2>2, <2>3
<1>23. CASE Suspend \/ Reopen
  BY <1>3, <1>4, <1>23 DEF Suspend, Reopen, orderVars, exchVars
<1>24. CASE UNCHANGED vars
  BY <1>3, <1>4, <1>24 DEF vars, orderVars, exchVars
<1> QED
  BY <1>6, <1>7, <1>8, <1>9, <1>10, <1>11, <1>12, <1>14, <1>15, <1>17, <1>18, <1>19, <1>20,
     <1>21, <1>22, <1>23, <1>24 DEF Next, MainThread, PoolThreads, Exchange

LEMMA InitInv ==
  ASSUME Init
  PROVE  IInv
<1>1. Nothing \in Position /\ Nothing.matched = 0 /\ Nothing.cost = 0 /\ Nothing.open = 0
  BY DEF Nothing, Position
<1>2. TypeInv
  <2>1. Nothing.matched + Nothing.open <= NoTerms.amount
    BY DEF Nothing, NoTerms
  <2>2. NoTerms \in [side : {"BACK", "LAY"}, type : Types \cup {"LIMIT"},
                     odds : Odds \cup {0}, amount : Nat]
    BY DEF NoTerms
  <2>3. suspensions \in 0..MaxSuspensions
    BY AmountAssumption DEF Init
  <2> QED
    BY <1>1, <2>1, <2>2, <2>3 DEF Init, TypeInv, TypeOK, Bounded, Status
<1>3. Sighted
  BY DEF Init, Sighted
<1>4. SelectionLimit
  <2>1. \A o \in Order : exch[o] = Nothing /\ Back(o)
    BY DEF Init, Back, NoTerms
  <2>2. TypeOK /\ exch \in [Order -> Position]
    BY <1>2 DEF TypeInv, TypeOK
  <2>3. /\ \A o \in Order : WinGain(exch)[o] = 0 /\ WinLoss(exch)[o] = 0
        /\ \A o \in Order : LoseGain(exch)[o] = 0 /\ LoseLoss(exch)[o] = 0
    BY <1>1, <2>1 DEF WinGain, WinLoss, LoseGain, LoseLoss
  <2>4. /\ Sum(WinGain(exch)) = 0 /\ Sum(WinLoss(exch)) = 0
        /\ Sum(LoseGain(exch)) = 0 /\ Sum(LoseLoss(exch)) = 0
    BY <2>2, <2>3, PartsType, SumZero
  <2> QED
    BY <2>4, Parts, AmountAssumption DEF SelectionLimit
<1> QED
  BY <1>2, <1>3, <1>4 DEF IInv

\* Spec => []LimitKept: whatever is matched, lapses or fails, and however late
\* the strategy hears of it, the limit of StrategyExposure is kept unless a
\* bet has been lost sight of (tradingcontrols.py, blotter.py).
THEOREM LimitSafe == Spec => []LimitKept
<1>1. Init => IInv
  BY InitInv
<1>2. IInv /\ [Next]_vars => IInv'
  BY LimitStep
<1>3. IInv => LimitKept
  BY DEF IInv, LimitKept
<1> QED
  BY <1>1, <1>2, <1>3, PTL DEF Spec

\* Spec => []ReadIsCautious: until then get_exposures never answers better
\* than what the bets are worth (blotter.py).
THEOREM ReadSafe == Spec => []ReadIsCautious
<1>1. Init => IInv
  BY InitInv
<1>2. IInv /\ [Next]_vars => IInv'
  BY LimitStep
<1>3. IInv => ReadIsCautious
  BY ReadNoBetter DEF IInv, ReadIsCautious
<1> QED
  BY <1>1, <1>2, <1>3, PTL DEF Spec

-----------------------------------------------------------------------------
(* The worst case *)

\* The four sums of ProfitOnWin and ProfitOnLose
WinGainIf(pos, F) ==
  [o \in Order |-> IF ~Back(o) THEN 0
                   ELSE pos[o].cost + IF o \in F THEN terms[o].odds * pos[o].open ELSE 0]
WinLossIf(pos, F) ==
  [o \in Order |-> IF Back(o) THEN 0
                   ELSE pos[o].cost + IF o \in F THEN Liability(o, pos[o].open) ELSE 0]
LoseGainIf(pos, F) ==
  [o \in Order |-> IF Back(o) THEN 0
                   ELSE pos[o].matched + IF o \in F /\ Limit(o) THEN pos[o].open ELSE 0]
LoseLossIf(pos, F) ==
  [o \in Order |-> IF ~Back(o) THEN 0
                   ELSE pos[o].matched + IF o \in F THEN pos[o].open ELSE 0]

LEMMA PartsIf ==
  ASSUME NEW p, NEW F
  PROVE  /\ ProfitOnWin(p, F) = Sum(WinGainIf(p, F)) - Sum(WinLossIf(p, F))
         /\ ProfitOnLose(p, F) = Sum(LoseGainIf(p, F)) - Sum(LoseLossIf(p, F))
BY DEF ProfitOnWin, ProfitOnLose, WinGainIf, WinLossIf, LoseGainIf, LoseLossIf

\* What the four functions return, next to those of the worst case.
LEMMA PartsIfType ==
  ASSUME TypeOK, NEW p \in [Order -> Position], NEW F, NEW o \in Order
  PROVE  /\ WinGainIf(p, F)[o] \in Nat /\ WinLossIf(p, F)[o] \in Nat
         /\ LoseGainIf(p, F)[o] \in Nat /\ LoseLossIf(p, F)[o] \in Nat
         /\ WinGain(p)[o] <= WinGainIf(p, F)[o] /\ WinLossIf(p, F)[o] <= WinLoss(p)[o]
         /\ LoseGain(p)[o] <= LoseGainIf(p, F)[o] /\ LoseLossIf(p, F)[o] <= LoseLoss(p)[o]
<1> DEFINE more == terms[o].odds * p[o].open
           liable == Liability(o, p[o].open)
<1>1. p[o].matched \in Nat /\ p[o].cost \in Nat /\ p[o].open \in Nat
  BY DEF Position
<1>2. more \in Nat /\ liable \in Nat
  BY <1>1, OddsType, LiabilityType
<1>3. /\ WinGainIf(p, F)[o] = IF ~Back(o) THEN 0 ELSE p[o].cost + IF o \in F THEN more ELSE 0
      /\ WinLossIf(p, F)[o] = IF Back(o) THEN 0 ELSE p[o].cost + IF o \in F THEN liable ELSE 0
      /\ LoseGainIf(p, F)[o] = IF Back(o) THEN 0
                               ELSE p[o].matched + IF o \in F /\ Limit(o) THEN p[o].open ELSE 0
      /\ LoseLossIf(p, F)[o] = IF ~Back(o) THEN 0
                               ELSE p[o].matched + IF o \in F THEN p[o].open ELSE 0
  BY DEF WinGainIf, WinLossIf, LoseGainIf, LoseLossIf
<1>4. /\ WinGain(p)[o] = IF Back(o) THEN p[o].cost ELSE 0
      /\ WinLoss(p)[o] = IF Back(o) THEN 0 ELSE p[o].cost + liable
      /\ LoseGain(p)[o] = IF Back(o) THEN 0 ELSE p[o].matched
      /\ LoseLoss(p)[o] = IF Back(o) THEN p[o].matched + p[o].open ELSE 0
  BY DEF WinGain, WinLoss, LoseGain, LoseLoss
<1> HIDE DEF more, liable
<1> QED
  BY <1>1, <1>2, <1>3, <1>4

LEMMA PartsIfNat ==
  ASSUME TypeOK, NEW p \in [Order -> Position], NEW F
  PROVE  /\ WinGainIf(p, F) \in [Order -> Nat] /\ WinLossIf(p, F) \in [Order -> Nat]
         /\ LoseGainIf(p, F) \in [Order -> Nat] /\ LoseLossIf(p, F) \in [Order -> Nat]
<1>1. \A o \in Order :
        /\ WinGainIf(p, F)[o] \in Nat /\ WinLossIf(p, F)[o] \in Nat
        /\ LoseGainIf(p, F)[o] \in Nat /\ LoseLossIf(p, F)[o] \in Nat
  BY PartsIfType
<1>2. /\ WinGainIf(p, F) = [o \in Order |-> WinGainIf(p, F)[o]]
      /\ WinLossIf(p, F) = [o \in Order |-> WinLossIf(p, F)[o]]
      /\ LoseGainIf(p, F) = [o \in Order |-> LoseGainIf(p, F)[o]]
      /\ LoseLossIf(p, F) = [o \in Order |-> LoseLossIf(p, F)[o]]
  BY DEF WinGainIf, WinLossIf, LoseGainIf, LoseLossIf
<1> QED
  BY <1>1, <1>2

\* Whatever is still matched, the profit is at least that of the worst case.
LEMMA NoOutcomeWorse ==
  ASSUME TypeOK, NEW p \in [Order -> Position], NEW F
  PROVE  /\ ProfitOnWin(p, F) \in Int /\ WorstOnWin(p) <= ProfitOnWin(p, F)
         /\ ProfitOnLose(p, F) \in Int /\ WorstOnLose(p) <= ProfitOnLose(p, F)
<1>1. /\ Sum(WinGain(p)) <= Sum(WinGainIf(p, F)) /\ Sum(WinLossIf(p, F)) <= Sum(WinLoss(p))
      /\ Sum(LoseGain(p)) <= Sum(LoseGainIf(p, F)) /\ Sum(LoseLossIf(p, F)) <= Sum(LoseLoss(p))
  BY PartsIfType, PartsIfNat, PartsType, SumMono
<1>2. /\ Sum(WinGain(p)) \in Nat /\ Sum(WinGainIf(p, F)) \in Nat
      /\ Sum(WinLoss(p)) \in Nat /\ Sum(WinLossIf(p, F)) \in Nat
      /\ Sum(LoseGain(p)) \in Nat /\ Sum(LoseGainIf(p, F)) \in Nat
      /\ Sum(LoseLoss(p)) \in Nat /\ Sum(LoseLossIf(p, F)) \in Nat
  BY PartsIfNat, PartsType, SumType
<1> QED
  BY <1>1, <1>2, Parts, PartsIf

\* It is reached: when the selection wins, with the lay bets alone matched; when
\* it loses, with the back bets.
LEMMA WorstReached ==
  ASSUME TypeOK, NEW p \in [Order -> Position]
  PROVE  /\ \E F \in SUBSET Order : ProfitOnWin(p, F) = WorstOnWin(p)
         /\ \E F \in SUBSET Order : ProfitOnLose(p, F) = WorstOnLose(p)
<1> DEFINE Lays == {o \in Order : ~Back(o)}
           Backs == {o \in Order : Back(o)}
<1>0. \A o \in Order : p[o].matched \in Nat /\ p[o].cost \in Nat /\ p[o].open \in Nat
  BY DEF Position
<1>1. WinGainIf(p, Lays) = WinGain(p) /\ WinLossIf(p, Lays) = WinLoss(p)
  BY <1>0 DEF WinGainIf, WinLossIf, WinGain, WinLoss
<1>2. LoseGainIf(p, Backs) = LoseGain(p) /\ LoseLossIf(p, Backs) = LoseLoss(p)
  BY <1>0 DEF LoseGainIf, LoseLossIf, LoseGain, LoseLoss
<1>3. ProfitOnWin(p, Lays) = WorstOnWin(p) /\ ProfitOnLose(p, Backs) = WorstOnLose(p)
  BY <1>1, <1>2, Parts, PartsIf
<1>4. Lays \in SUBSET Order /\ Backs \in SUBSET Order
  OBVIOUS
<1> QED
  BY <1>3, <1>4

\* A lower bound of a set of integers that belongs to it is its minimum.
LEMMA MinIs ==
  ASSUME NEW S \in SUBSET Int, NEW m \in S, \A x \in S : m <= x
  PROVE  Min(S) = m
<1>1. Min(S) \in S /\ \A x \in S : Min(S) <= x
  BY DEF Min
<1>2. Min(S) <= m /\ m <= Min(S) /\ m \in Int /\ Min(S) \in Int
  BY <1>1
<1> HIDE DEF Min
<1> QED
  BY <1>2

\* What get_exposures reads is a position for each order.
LEMMA ReadType ==
  ASSUME TypeOK
  PROVE  Read(NoOrder) \in [Order -> Position]
<1>1. ASSUME NEW o \in Order
      PROVE  /\ view[o] \in Position /\ Unplaced(terms[o]) \in Position
             /\ Nothing \in Position
  <2>1. terms[o].amount \in Nat
    BY OddsType
  <2> QED
    BY <2>1 DEF Unplaced, Nothing, Position, TypeOK
<1> QED
  BY <1>1 DEF Read

\* Spec => []ExposureIsWorstCase: what get_exposures answers is the least profit over
\* every set of orders that may still be matched, and no bound below it
\* (blotter.py, worst_possible_profit_on_win and worst_possible_profit_on_lose).
THEOREM WorstCaseExact == Spec => []ExposureIsWorstCase
<1>1. ASSUME TypeOK PROVE ExposureIsWorstCase
  <2> DEFINE pos == Read(NoOrder)
             OnWin == {ProfitOnWin(pos, F) : F \in SUBSET Order}
             OnLose == {ProfitOnLose(pos, F) : F \in SUBSET Order}
  <2>1. pos \in [Order -> Position]
    BY <1>1, ReadType
  <2> HIDE DEF pos
  <2>2. /\ OnWin \in SUBSET Int /\ \A x \in OnWin : WorstOnWin(pos) <= x
        /\ OnLose \in SUBSET Int /\ \A x \in OnLose : WorstOnLose(pos) <= x
    BY <1>1, <2>1, NoOutcomeWorse
  <2>3. WorstOnWin(pos) \in OnWin /\ WorstOnLose(pos) \in OnLose
    BY <1>1, <2>1, WorstReached
  <2> HIDE DEF OnWin, OnLose
  <2>4. WorstOnWin(pos) = Min(OnWin) /\ WorstOnLose(pos) = Min(OnLose)
    BY <2>2, <2>3, MinIs
  <2> QED
    BY <2>4 DEF OnWin, OnLose, pos, ExposureIsWorstCase
<1> QED
  BY <1>1, TypeCorrect, PTL

\* No set of bets that the exchange may still match loses more than
\* max_selection_exposure, whether the selection wins or loses, unless a bet has
\* been lost sight of (StrategyExposure over Blotter.get_exposures).
OutcomesBounded ==
  Blind \/ \A F \in SUBSET Order : /\ ProfitOnWin(exch, F) >= -MaxSelection
                                   /\ ProfitOnLose(exch, F) >= -MaxSelection
THEOREM OutcomesSafe == Spec => []OutcomesBounded
<1>1. ASSUME TypeOK, LimitKept PROVE OutcomesBounded
  <2> SUFFICES ASSUME ~Blind, NEW F \in SUBSET Order
               PROVE  /\ ProfitOnWin(exch, F) >= -MaxSelection
                      /\ ProfitOnLose(exch, F) >= -MaxSelection
    BY DEF OutcomesBounded
  <2>1. exch \in [Order -> Position]
    BY <1>1 DEF TypeOK
  <2>2. /\ ProfitOnWin(exch, F) \in Int /\ WorstOnWin(exch) <= ProfitOnWin(exch, F)
        /\ ProfitOnLose(exch, F) \in Int /\ WorstOnLose(exch) <= ProfitOnLose(exch, F)
    BY <1>1, <2>1, NoOutcomeWorse
  <2>3. WorstOnWin(exch) \in Int /\ WorstOnLose(exch) \in Int /\ -MaxSelection \in Int
    BY <1>1, <2>1, WorstType, AmountAssumption
  <2>4. WorstOnWin(exch) >= -MaxSelection /\ WorstOnLose(exch) >= -MaxSelection
    BY <1>1 DEF LimitKept, SelectionLimit
  <2> QED
    BY <2>2, <2>3, <2>4
<1> QED
  BY <1>1, TypeCorrect, LimitSafe, PTL

-----------------------------------------------------------------------------
(* The price ladder: get_nearest_price *)

\* The bands of the ladder: where one starts and ends, its step, and how many
\* steps it starts at.
LEMMA Bands ==
  ASSUME NEW b \in Band
  PROVE  \/ b = 1  /\ From(b) = 101   /\ CUTOFFS[b] = [upto |-> 200,    step |-> 1]
         \/ b = 2  /\ From(b) = 200   /\ CUTOFFS[b] = [upto |-> 300,    step |-> 2]
         \/ b = 3  /\ From(b) = 300   /\ CUTOFFS[b] = [upto |-> 400,    step |-> 5]
         \/ b = 4  /\ From(b) = 400   /\ CUTOFFS[b] = [upto |-> 600,    step |-> 10]
         \/ b = 5  /\ From(b) = 600   /\ CUTOFFS[b] = [upto |-> 1000,   step |-> 20]
         \/ b = 6  /\ From(b) = 1000  /\ CUTOFFS[b] = [upto |-> 2000,   step |-> 50]
         \/ b = 7  /\ From(b) = 2000  /\ CUTOFFS[b] = [upto |-> 3000,   step |-> 100]
         \/ b = 8  /\ From(b) = 3000  /\ CUTOFFS[b] = [upto |-> 5000,   step |-> 200]
         \/ b = 9  /\ From(b) = 5000  /\ CUTOFFS[b] = [upto |-> 10000,  step |-> 500]
         \/ b = 10 /\ From(b) = 10000 /\ CUTOFFS[b] = [upto |-> 100000, step |-> 1000]
<1>1. b \in 1..10
  BY DEF Band
<1>2. b = 1 \/ b = 2 \/ b = 3 \/ b = 4 \/ b = 5 \/ b = 6 \/ b = 7 \/ b = 8 \/ b = 9 \/ b = 10
  BY <1>1
<1> QED BY <1>2, SMT DEF From, CUTOFFS, MIN_PRICE

LEMMA Uptos ==
  /\ CUTOFFS[1].upto = 200 /\ CUTOFFS[2].upto = 300 /\ CUTOFFS[3].upto = 400
  /\ CUTOFFS[4].upto = 600 /\ CUTOFFS[5].upto = 1000 /\ CUTOFFS[6].upto = 2000
  /\ CUTOFFS[7].upto = 3000 /\ CUTOFFS[8].upto = 5000 /\ CUTOFFS[9].upto = 10000
  /\ CUTOFFS[10].upto = 100000
BY SMT DEF CUTOFFS

LEMMA LadderOfBands == ASSUME NEW b \in Band PROVE BandPrices(b) \subseteq PRICES
BY DEF PRICES
LEMMA LastOnLadder == 100000 \in PRICES
<1>1. MAX_PRICE \in PRICES
  BY DEF PRICES
<1> QED BY <1>1, SMT DEF MAX_PRICE

\* A multiple of the step in a band, but for its end, is a price of the band.
LEMMA InBand ==
  ASSUME NEW b \in Band, NEW q \in Int,
         From(b) <= q * CUTOFFS[b].step, q * CUTOFFS[b].step < CUTOFFS[b].upto
  PROVE  q * CUTOFFS[b].step \in BandPrices(b)
<1> DEFINE k == q - From(b) \div CUTOFFS[b].step
<1>1. k \in 0..((CUTOFFS[b].upto - From(b) - 1) \div CUTOFFS[b].step)
  BY Bands, SMT
<1>2. From(b) + k * CUTOFFS[b].step = q * CUTOFFS[b].step
  BY Bands, SMT
<1> QED BY <1>1, <1>2 DEF BandPrices

LEMMA BandOnLadder ==
  ASSUME NEW b \in Band, NEW q \in Int,
         From(b) <= q * CUTOFFS[b].step, q * CUTOFFS[b].step <= CUTOFFS[b].upto
  PROVE  q * CUTOFFS[b].step \in PRICES
<1> DEFINE p == q * CUTOFFS[b].step
<1>1. CASE p < CUTOFFS[b].upto
  BY <1>1, InBand, LadderOfBands, SMT
<1>2. CASE p = CUTOFFS[b].upto /\ b = 10
  <2>1. p = 100000
    BY <1>2, Bands, SMT
  <2> QED BY <2>1, LastOnLadder, SMT
<1>3. CASE p = CUTOFFS[b].upto /\ b # 10
  <2>1. b + 1 \in Band
    BY <1>3 DEF Band
  <2>2. From(b + 1) = p
    BY <1>3, <2>1, Bands, SMT
  <2>3. From(b + 1) \in BandPrices(b + 1)
    <3> DEFINE c == b + 1
    <3>1. 0 \in 0..((CUTOFFS[c].upto - From(c) - 1) \div CUTOFFS[c].step)
      BY <2>1, Bands, SMT
    <3>2. From(c) + 0 * CUTOFFS[c].step = From(c)
      BY <2>1, Bands, SMT
    <3> QED BY <3>1, <3>2 DEF BandPrices
  <2> QED BY <2>1, <2>2, <2>3, LadderOfBands, SMT
<1>4. p \in Int /\ CUTOFFS[b].upto \in Int
  BY Bands, SMT
<1> QED BY <1>1, <1>2, <1>3, <1>4

\* get_nearest_price takes a price between the first and the last to the band it
\* is in.
LEMMA BandOfPrice ==
  ASSUME NEW m \in Nat, m > 1010, m <= 1000000
  PROVE  /\ BandOf(m) \in Band
         /\ 10 * From(BandOf(m)) <= m /\ m <= 10 * CUTOFFS[BandOf(m)].upto
<1>1. CASE \E b \in Band : m < 10 * CUTOFFS[b].upto
  <2>1. PICK b \in Band : m < 10 * CUTOFFS[b].upto /\ \A c \in 1..(b - 1) : m >= 10 * CUTOFFS[c].upto
    <3> DEFINE Least(b) == m < 10 * CUTOFFS[b].upto /\ \A c \in 1..(b - 1) : m >= 10 * CUTOFFS[c].upto
    <3>0. m < 1000000
      <4>1. PICK x \in Band : m < 10 * CUTOFFS[x].upto
        BY <1>1
      <4> QED BY <4>1, Bands, SMT
    <3>1. ASSUME m < 2000 PROVE 1 \in Band /\ Least(1)
      BY <3>1, Uptos, SMT DEF Band
    <3>2. ASSUME 2000 <= m, m < 3000 PROVE 2 \in Band /\ Least(2)
      BY <3>2, Uptos, SMT DEF Band
    <3>3. ASSUME 3000 <= m, m < 4000 PROVE 3 \in Band /\ Least(3)
      BY <3>3, Uptos, SMT DEF Band
    <3>4. ASSUME 4000 <= m, m < 6000 PROVE 4 \in Band /\ Least(4)
      BY <3>4, Uptos, SMT DEF Band
    <3>5. ASSUME 6000 <= m, m < 10000 PROVE 5 \in Band /\ Least(5)
      BY <3>5, Uptos, SMT DEF Band
    <3>6. ASSUME 10000 <= m, m < 20000 PROVE 6 \in Band /\ Least(6)
      BY <3>6, Uptos, SMT DEF Band
    <3>7. ASSUME 20000 <= m, m < 30000 PROVE 7 \in Band /\ Least(7)
      BY <3>7, Uptos, SMT DEF Band
    <3>8. ASSUME 30000 <= m, m < 50000 PROVE 8 \in Band /\ Least(8)
      BY <3>8, Uptos, SMT DEF Band
    <3>9. ASSUME 50000 <= m, m < 100000 PROVE 9 \in Band /\ Least(9)
      BY <3>9, Uptos, SMT DEF Band
    <3>10. ASSUME 100000 <= m, m < 1000000 PROVE 10 \in Band /\ Least(10)
      BY <3>10, Uptos, SMT DEF Band
    <3> HIDE DEF Least
    <3>11. \E b \in Band : Least(b)
      BY <3>0, <3>1, <3>2, <3>3, <3>4, <3>5, <3>6, <3>7, <3>8, <3>9, <3>10, SMT
    <3> QED BY <3>11 DEF Least
  <2> DEFINE First(c) == /\ m < 10 * CUTOFFS[c].upto
                         /\ \A d \in 1..(c - 1) : m >= 10 * CUTOFFS[d].upto
  <2>2. BandOf(m) = CHOOSE c \in Band : First(c)
    BY <1>1 DEF BandOf
  <2> DEFINE B == CHOOSE c \in Band : First(c)
  <2>3. B \in Band /\ First(B)
    BY <2>1
  <2>4. BandOf(m) = B
    BY <2>2
  <2> HIDE DEF B
  <2>5. B \in 1..10
    BY <2>3 DEF Band
  <2>6. 10 * From(B) <= m
    <3>1. CASE B = 1
      BY <2>3, <3>1, Bands, SMT
    <3>2. CASE B # 1
      <4>1. B - 1 \in 1..(B - 1) /\ B - 1 \in Band
        BY <2>5, <3>2 DEF Band
      <4>2. m >= 10 * CUTOFFS[B - 1].upto
        BY <2>3, <4>1
      <4>3. From(B) = CUTOFFS[B - 1].upto
        BY <3>2 DEF From
      <4> QED BY <4>2, <4>3
    <3> QED BY <3>1, <3>2
  <2>7. m <= 10 * CUTOFFS[B].upto
    BY <2>3, Bands, SMT
  <2> QED BY <2>3, <2>4, <2>6, <2>7
<1>2. CASE ~\E b \in Band : m < 10 * CUTOFFS[b].upto
  <2>1. 10 \in Band
    BY DEF Band
  <2>2. m >= 1000000
    BY <1>2, <2>1, Bands, SMT
  <2>3. BandOf(m) = 10
    BY <1>2, SMT DEF BandOf
  <2> QED BY <2>1, <2>2, <2>3, Bands, SMT
<1> QED BY <1>1, <1>2

\* Rounding in a band stays in it, and within half a step.
LEMMA RoundInBand ==
  ASSUME NEW m \in Nat, NEW b \in Band,
         10 * From(b) <= m, m <= 10 * CUTOFFS[b].upto
  PROVE  LET s == CUTOFFS[b].step
             q == (2 * m + 10 * s) \div (20 * s) IN
         /\ q \in Int
         /\ From(b) <= q * s /\ q * s <= CUTOFFS[b].upto
         /\ 10 * (q * s) - m <= 5 * s /\ m - 10 * (q * s) <= 5 * s
BY Bands, SMTT(60)

\* Every price get_nearest_price returns is on the ladder (utils.py:91-101), so
\* that the ladder check of OrderValidation accepts it.
THEOREM NearestOnLadder == \A m \in Nat : get_nearest_price(m) \in PRICES
<1> SUFFICES ASSUME NEW m \in Nat PROVE get_nearest_price(m) \in PRICES
  OBVIOUS
<1>1. 101 \in PRICES
  <2>1. 1 \in Band /\ From(1) = 101
    BY SMT DEF Band, From, MIN_PRICE
  <2>2. 101 * CUTOFFS[1].step = 101 /\ CUTOFFS[1].upto = 200
    BY <2>1, Bands, SMT
  <2> QED BY <2>1, <2>2, BandOnLadder, SMT
<1>2. CASE m <= 1010
  BY <1>1, <1>2, SMT DEF get_nearest_price, MIN_PRICE
<1>3. CASE m > 1000000
  BY <1>3, LastOnLadder, SMT DEF get_nearest_price, MIN_PRICE, MAX_PRICE
<1>4. CASE m > 1010 /\ m <= 1000000
  <2> DEFINE b == BandOf(m)
             s == CUTOFFS[b].step
             q == (2 * m + 10 * s) \div (20 * s)
  <2>1. b \in Band /\ 10 * From(b) <= m /\ m <= 10 * CUTOFFS[b].upto
    BY <1>4, BandOfPrice, SMT
  <2>2. q \in Int /\ From(b) <= q * s /\ q * s <= CUTOFFS[b].upto
    BY <2>1, RoundInBand, SMT
  <2>3. get_nearest_price(m) = q * s
    BY <1>4, SMT DEF get_nearest_price, MIN_PRICE, MAX_PRICE, RoundHalfUp
  <2> HIDE DEF b, q
  <2>4. q * s \in PRICES
    BY <2>1, <2>2, BandOnLadder, SMT
  <2> QED BY <2>3, <2>4
<1> QED BY <1>2, <1>3, <1>4, SMT

\* get_nearest_price is within half a step of the price it is asked for, between the
\* first and the last price of the ladder.
THEOREM NearestIsNear ==
  \A m \in Nat : m > 1010 /\ m <= 1000000 =>
    LET s == CUTOFFS[BandOf(m)].step IN
    /\ 10 * get_nearest_price(m) - m <= 5 * s
    /\ m - 10 * get_nearest_price(m) <= 5 * s
<1> SUFFICES ASSUME NEW m \in Nat, m > 1010, m <= 1000000
             PROVE  LET s == CUTOFFS[BandOf(m)].step IN
                    /\ 10 * get_nearest_price(m) - m <= 5 * s
                    /\ m - 10 * get_nearest_price(m) <= 5 * s
  BY SMT
<1> DEFINE b == BandOf(m)
           s == CUTOFFS[b].step
           q == (2 * m + 10 * s) \div (20 * s)
<1>1. b \in Band /\ 10 * From(b) <= m /\ m <= 10 * CUTOFFS[b].upto
  BY BandOfPrice, SMT
<1>2. 10 * (q * s) - m <= 5 * s /\ m - 10 * (q * s) <= 5 * s
  BY <1>1, RoundInBand, SMT
<1>3. get_nearest_price(m) = q * s
  BY SMT DEF get_nearest_price, MIN_PRICE, MAX_PRICE, RoundHalfUp
<1> HIDE DEF b, q
<1> QED BY <1>2, <1>3, SMT DEF b
=============================================================================
